---- MODULE Spec2Model ----
(***************************************************************************)
(* Streaming tool-execution orchestrator of the chatbot backend.           *)
(*                                                                         *)
(*   backend/app/helpers/llm.py          retry executors, completion       *)
(*   backend/app/routes/conversations.py event_stream, persistence         *)
(*   backend/app/helpers/mcp/__init__.py JSON-RPC client (the Bridge)      *)
(*   mcp/app/routes/mcp.py               the repository's tool service     *)
(*                                                                         *)
(* Delays are whole seconds.  Strings are TLA+ strings, concatenated with  *)
(* \o as Python concatenates them.                                         *)
(***************************************************************************)
EXTENDS Integers, Sequences, FiniteSets, TLC

VARIABLES
    settings,            \* LLMHelper.MAX_RETRIES, INITIAL_RETRY_DELAY, MAX_RETRY_DELAY, BACKOFF_MULTIPLIER
    ex,                  \* the frame of the running retry executor
    history,             \* what the stand-alone executor has done so far
    pc,                  \* position of the request handler
    service,             \* the tool service MCP_SERVER_URL reaches: the repository's own or another
    http,                \* resp.status of a non-stream answer, 0 while none was given
    conversation,        \* messages of the stored conversation document
    messages,            \* transcript on_post hands to the first completion
    tools,               \* tool definitions offered to the model (transit names)
    tool_name_mapping,   \* transit name -> original name
    assistant_content,   \* event_stream locals
    assistant_thinking,
    tool_calls,
    current_tool,
    current_json,
    final_response_content,
    tool_results,
    tool_index,          \* position of "for tool_call in tool_calls"
    sse,                 \* what the client has received, in order
    completions,         \* parameters of each stream_chat_completion call
    invoked,             \* JSON-RPC exchanges of the tool phase
    appendCalls,         \* update_one pushes of an assistant message
    fed,                 \* how many events of each sort the provider has sent
    decoded,             \* the payload-carrying events the "async for" loops received, if recorded
    call,                \* temperature, max_tokens, thinking of a stream_with_tool_execution call
    requests             \* the handlers of requests served side by side, by request

accVars ==
    <<assistant_content, assistant_thinking, tool_calls, current_tool, current_json,
      final_response_content>>
orchVars ==
    <<pc, service, http, conversation, messages, tools, tool_name_mapping,
      assistant_content, assistant_thinking, tool_calls, current_tool, current_json,
      final_response_content, tool_results, tool_index, sse, completions, invoked, appendCalls, fed,
      decoded, call, requests>>
vars ==
    <<settings, ex, history, pc, service, http, conversation, messages, tools, tool_name_mapping,
      assistant_content, assistant_thinking, tool_calls, current_tool, current_json,
      final_response_content, tool_results, tool_index, sse, completions, invoked, appendCalls, fed,
      decoded, call, requests>>

Min(a, b) == IF a <= b THEN a ELSE b

(***************************************************************************)
(* Bounds of the model.                                                    *)
(***************************************************************************)
MaxRetriesBound == 3      \* MAX_RETRIES ranges over 0..MaxRetriesBound
MaxInitialDelay == 2      \* INITIAL_RETRY_DELAY ranges over 0..MaxInitialDelay
MaxDelayCap == 2          \* MAX_RETRY_DELAY ranges over 1..MaxDelayCap
MaxMultiplier == 2        \* BACKOFF_MULTIPLIER ranges over 1..MaxMultiplier
MaxStreamLen == 1         \* events one provider stream yields before it ends or fails

(***************************************************************************)
(* Exceptions the provider client raises.  An APIStatusError carries the   *)
(* decoded response body: a dict whose "error" is a dict with a "type", a  *)
(* dict whose "error" is not a dict, or no dict at all (a text body).      *)
(***************************************************************************)
ErrorTypes == {"overloaded_error", "rate_limit_error", "invalid_request_error", "None"}

TypedBody(t) == [isdict |-> TRUE, error |-> [isdict |-> TRUE, type |-> t]]
UntypedBody == [isdict |-> TRUE, error |-> [isdict |-> FALSE, type |-> "None"]]
TextBody == [isdict |-> FALSE, error |-> [isdict |-> FALSE, type |-> "None"]]

APIStatusError(body) == [cls |-> "APIStatusError", body |-> body]
APIConnectionError == [cls |-> "APIConnectionError", body |-> TextBody]
AttributeError == [cls |-> "AttributeError", body |-> TextBody]
NoError == [cls |-> "none", body |-> TextBody]

UpstreamErrors ==
    {APIStatusError(TypedBody(t)) : t \in ErrorTypes}
        \cup {APIStatusError(UntypedBody), APIStatusError(TextBody), APIConnectionError}

\* An error the upstream tags overloaded or rate-limited.
IsOverload(e) ==
    /\ e.cls = "APIStatusError"
    /\ e.body.isdict
    /\ e.body.error.isdict
    /\ e.body.error.type \in {"overloaded_error", "rate_limit_error"}

(***************************************************************************)
(* The except clauses of the two executors.  The result is what the loop   *)
(* does next: "retry" (sleep, continue), "raise" (re-raise e) or "crash"   *)
(* (the classification itself raises AttributeError).                      *)
(***************************************************************************)
\* An executor that gives up one attempt early.
RetryClassifyShort(e, attempt, max_retries) ==
    IF e.cls = "APIStatusError"
    THEN IF e.body.isdict
         THEN IF ~e.body.error.isdict
              THEN "crash"
              ELSE IF /\ e.body.error.type \in {"overloaded_error", "rate_limit_error"}
                      /\ attempt + 1 < max_retries
                   THEN "retry"
                   ELSE "raise"
         ELSE "raise"
    ELSE "raise"

RetryClassify(e, attempt, max_retries) ==
    IF e.cls = "APIStatusError"
    THEN IF e.body.isdict
         THEN IF ~e.body.error.isdict
              THEN "crash"      \* error_data.get("error", {}).get("type") on a non-dict
              ELSE IF /\ e.body.error.type \in {"overloaded_error", "rate_limit_error"}
                      /\ attempt < max_retries
                   THEN "retry"
                   ELSE "raise"
         ELSE "raise"
    ELSE "raise"

StreamClassify(e, attempt, max_retries) ==
    IF e.cls = "APIStatusError"
    THEN IF e.body.isdict
         THEN IF ~e.body.error.isdict
              THEN "crash"
              ELSE IF /\ e.body.error.type \in {"overloaded_error", "rate_limit_error"}
                      /\ attempt < max_retries
                   THEN "retry"
                   ELSE "raise"
         ELSE "raise"
    ELSE "raise"

\* A backoff that never grows.
NextDelayConstant(delay) == delay

\* delay = min(delay * BACKOFF_MULTIPLIER, MAX_RETRY_DELAY)
NextDelay(delay) == Min(delay * settings.BACKOFF_MULTIPLIER, settings.MAX_RETRY_DELAY)

\* The frame of an executor at the top of its loop.
NewExecutor(kind) ==
    [kind |-> kind,
     status |-> "attempting",
     max_retries |-> settings.MAX_RETRIES,
     attempt |-> 0,
     delay |-> settings.INITIAL_RETRY_DELAY]

\* The exception that leaves the executor when it does not retry.
Propagated(e, decision) == IF decision = "raise" THEN e ELSE AttributeError

\* The frame after the operation of this attempt failed: asleep before the
\* next attempt, or left by an exception.
Failed(x, decision) ==
    IF decision = "retry" THEN [x EXCEPT !.status = "sleeping"] ELSE [x EXCEPT !.status = "raised"]

\* The frame after asyncio.sleep(delay) returned: new delay, next attempt.
Woken(x) ==
    [x EXCEPT !.status = "attempting",
              !.delay = NextDelay(x.delay),
              !.attempt = @ + 1]

\* The record of a run: invocations of the operation, delays slept, errors
\* the operation raised, events yielded by the current stream, positions (in
\* their stream) of the events handed to the caller, and the exception that
\* reached the caller.
NoHistory ==
    [invocations |-> 0, sleeps |-> <<>>, failures |-> <<>>, yielded |-> 0,
     delivered |-> <<>>, error |-> NoError]

Invoked(h) == [h EXCEPT !.invocations = @ + 1, !.yielded = 0]

Recorded(h, e, decision, delay) ==
    [h EXCEPT !.failures = Append(@, e),
              !.sleeps = IF decision = "retry" THEN Append(@, delay) ELSE @,
              !.error = IF decision = "retry" THEN @ ELSE Propagated(e, decision)]

(***************************************************************************)
(* _retry_with_backoff(func), called as generate_completion calls it       *)
(* (max_retries and initial_delay left None).                              *)
(***************************************************************************)
RetryAttemptOk ==
    /\ pc = "executor"
    /\ ex.kind = "call"
    /\ ex.status = "attempting"
    /\ ex' = [ex EXCEPT !.status = "returned"]
    /\ history' = Invoked(history)
    /\ UNCHANGED settings /\ UNCHANGED orchVars

RetryAttemptFails ==
    /\ pc = "executor"
    /\ ex.kind = "call"
    /\ ex.status = "attempting"
    /\ \E e \in UpstreamErrors :
          LET decision == RetryClassify(e, ex.attempt, ex.max_retries)
          IN  /\ ex' = Failed(ex, decision)
              /\ history' = Recorded(Invoked(history), e, decision, ex.delay)
    /\ UNCHANGED settings /\ UNCHANGED orchVars

RetryWake ==
    /\ pc = "executor"
    /\ ex.kind = "call"
    /\ ex.status = "sleeping"
    /\ ex' = Woken(ex)
    /\ UNCHANGED <<settings, history>> /\ UNCHANGED orchVars

(***************************************************************************)
(* _stream_with_retry(params) on its own, its caller taking every event.   *)
(***************************************************************************)
Opened(x) == [x EXCEPT !.status = "streaming"]

Completed(x) == [x EXCEPT !.status = "returned"]

StreamOpen ==
    /\ pc = "executor"
    /\ ex.kind = "stream"
    /\ ex.status = "attempting"
    /\ ex' = Opened(ex)
    /\ history' = Invoked(history)
    /\ UNCHANGED settings /\ UNCHANGED orchVars

StreamOpenFails ==
    /\ pc = "executor"
    /\ ex.kind = "stream"
    /\ ex.status = "attempting"
    /\ \E e \in UpstreamErrors :
          LET decision == StreamClassify(e, ex.attempt, ex.max_retries)
          IN  /\ ex' = Failed(ex, decision)
              /\ history' = Recorded(Invoked(history), e, decision, ex.delay)
    /\ UNCHANGED settings /\ UNCHANGED orchVars

StreamYield ==
    /\ pc = "executor"
    /\ ex.kind = "stream"
    /\ ex.status = "streaming"
    /\ history.yielded < MaxStreamLen
    /\ history' = [history EXCEPT !.yielded = @ + 1,
                                  !.delivered = Append(@, history.yielded + 1)]
    /\ UNCHANGED <<settings, ex>> /\ UNCHANGED orchVars

StreamBreaks ==
    /\ pc = "executor"
    /\ ex.kind = "stream"
    /\ ex.status = "streaming"
    /\ \E e \in UpstreamErrors :
          LET decision == StreamClassify(e, ex.attempt, ex.max_retries)
          IN  /\ ex' = Failed(ex, decision)
              /\ history' = Recorded(history, e, decision, ex.delay)
    /\ UNCHANGED settings /\ UNCHANGED orchVars

StreamCompletes ==
    /\ pc = "executor"
    /\ ex.kind = "stream"
    /\ ex.status = "streaming"
    /\ ex' = Completed(ex)
    /\ UNCHANGED <<settings, history>> /\ UNCHANGED orchVars

StreamWake ==
    /\ pc = "executor"
    /\ ex.kind = "stream"
    /\ ex.status = "sleeping"
    /\ ex' = Woken(ex)
    /\ UNCHANGED <<settings, history>> /\ UNCHANGED orchVars

(***************************************************************************)
(* Data of one request.                                                    *)
(***************************************************************************)
MaxEvents == 6       \* events the provider sends during one request, over all attempts
MaxDeltas == 2            \* of them text, thinking and partial_json deltas
MaxToolBlocks == 2        \* and tool-use blocks started
MaxNoise == 1             \* and events that event_stream has no branch for
MaxFinalEvents == 1       \* events of the second pass
MaxUpstreamFaults == 2    \* upstream failures the provider produces during one request

\* The text of the k-th delta of a request, and of a thinking delta.
TextToken(k) == IF k % 2 = 1 THEN "a" ELSE "b"
ThinkingDeltas == {"hm"}

\* The input of a tool-use block arrives as "{}", or as {"a":3,"b":4} in two
\* partial_json deltas.
FirstFragments == {"{}", "{\"a\":3,"}
NextFragments == {"\"b\":4}"}

\* A tool name is the sequence of its pieces, "." and "_" being pieces of
\* their own: math.add is <<"math", ".", "add">>.
RECURSIVE NameStr(_)
NameStr(name) == IF name = <<>> THEN "" ELSE Head(name) \o NameStr(Tail(name))

\* original_name.replace(".", "__")
RECURSIVE ReplaceDots(_)
ReplaceDots(name) ==
    IF name = <<>> THEN <<>>
    ELSE (IF Head(name) = "." THEN <<"_", "_">> ELSE <<Head(name)>>) \o ReplaceDots(Tail(name))

\* tool_name_mapping after the loop over raw_tools: later tools overwrite.
RECURSIVE BuildMapping(_)
BuildMapping(raw_tools) ==
    IF raw_tools = <<>> THEN <<>>
    ELSE LET front == BuildMapping(SubSeq(raw_tools, 1, Len(raw_tools) - 1))
             last == raw_tools[Len(raw_tools)]
         IN  [n \in (DOMAIN front) \cup {ReplaceDots(last)} |->
                 IF n = ReplaceDots(last) THEN last ELSE front[n]]

\* tool_name_mapping.get(name, name)
OriginalName(mapping, name) == IF name \in DOMAIN mapping THEN mapping[name] ELSE name

\* A JSON object with optional integer members a and b.
JsonObject(keys, a, b) == [keys |-> keys, a |-> a, b |-> b]
EmptyObject == JsonObject({}, 0, 0)

\* json.loads over the texts the fragments can form.
JsonValid(text) == text \in {"{}", "{\"a\":3,\"b\":4}"}
JsonLoads(text) == IF text = "{}" THEN EmptyObject ELSE JsonObject({"a", "b"}, 3, 4)

Digits == <<"0", "1", "2", "3", "4", "5", "6", "7", "8", "9">>
IntStr(n) == IF n < 10 THEN Digits[n + 1] ELSE Digits[(n \div 10) + 1] \o Digits[(n % 10) + 1]

\* json.dumps of such an object.
JsonDumps(obj) ==
    IF obj.keys = {} THEN "{}"
    ELSE "{\"a\": " \o IntStr(obj.a) \o ", \"b\": " \o IntStr(obj.b) \o "}"

(***************************************************************************)
(* The repository's tool service: MCPResource of mcp/app/routes/mcp.py     *)
(* with the tools of mcp/app/tools/math.py.                                *)
(***************************************************************************)
MathAdd == <<"math", ".", "add">>
MathDivide == <<"math", ".", "divide">>
MathMultiply == <<"math", ".", "multiply">>
MathSubtract == <<"math", ".", "subtract">>

\* discover_tools(): the decorated methods of MathTools, by method name.
RepoToolDefs == <<MathAdd, MathDivide, MathMultiply, MathSubtract>>

\* MCPResource._methods: the registered tool methods.
RepoMethods == {RepoToolDefs[i] : i \in DOMAIN RepoToolDefs}

SpecialMethods == {<<"list", "_", "tools">>, <<"ping">>, <<"whoami">>}

PARSE_ERROR == 0 - 32700
INVALID_REQUEST == 0 - 32600
METHOD_NOT_FOUND == 0 - 32601
INVALID_PARAMS == 0 - 32602
INTERNAL_ERROR == 0 - 32603

CodeStr(code) ==
    CASE code = PARSE_ERROR -> "-32700"
      [] code = INVALID_REQUEST -> "-32600"
      [] code = METHOD_NOT_FOUND -> "-32601"
      [] code = INVALID_PARAMS -> "-32602"
      [] OTHER -> "-32603"

\* A value a tool call can return: a dict (with or without a "content"
\* list) or a bare scalar; repr is str(value).
NoValue == [isnone |-> TRUE, isdict |-> FALSE, has_content |-> FALSE, content |-> <<>>, repr |-> "None"]
DictValue(repr) == [isnone |-> FALSE, isdict |-> TRUE, has_content |-> FALSE, content |-> <<>>, repr |-> repr]
ContentValue(items, repr) == [isnone |-> FALSE, isdict |-> TRUE, has_content |-> TRUE, content |-> items, repr |-> repr]
ScalarValue(repr) == [isnone |-> FALSE, isdict |-> FALSE, has_content |-> FALSE, content |-> <<>>, repr |-> repr]

TextItem(text) == [isdict |-> TRUE, has_text |-> TRUE, text |-> text]

NoRpcError == [isnone |-> TRUE, code |-> 0, message |-> ""]
RpcError(code, message) == [isnone |-> FALSE, code |-> code, message |-> message]

\* The JSON body of a JSON-RPC answer.
RpcResult(id, value) == [has_id |-> TRUE, id |-> id, result |-> value, error |-> NoRpcError]
RpcFailure(id, code, message) == [has_id |-> TRUE, id |-> id, result |-> NoValue, error |-> RpcError(code, message)]

\* AddOutput(result=n).model_dump()
AddOutput(n) == DictValue("{'result': " \o (IF n < 0 THEN "-" \o IntStr(0 - n) ELSE IntStr(n)) \o "}")

\* The arithmetic of MathTools, applied to validated AddInput.
MathResult(method, a, b) ==
    CASE method = MathAdd -> a + b
      [] method = MathSubtract -> a - b
      [] method = MathMultiply -> a * b
      [] OTHER -> a \div b

\* MCPResource.on_post for a request with an id: special methods, method
\* lookup, parameter validation, invocation, answer.
McpOnPost(raw) ==
    IF raw.id = ""
    THEN RpcFailure(raw.id, INVALID_REQUEST, "Invalid Request")
    ELSE IF raw.method \in SpecialMethods
    THEN RpcResult(raw.id, DictValue("special"))
    ELSE IF raw.method \notin RepoMethods
    THEN RpcFailure(raw.id, METHOD_NOT_FOUND, "Method not found")
    ELSE IF ~({"a", "b"} \subseteq raw.params.keys)
    THEN RpcFailure(raw.id, INVALID_PARAMS, "Invalid params")
    ELSE IF raw.method = MathDivide /\ raw.params.b = 0
    THEN RpcFailure(raw.id, INTERNAL_ERROR, "Internal error")
    ELSE RpcResult(raw.id, AddOutput(MathResult(raw.method, raw.params.a, raw.params.b)))

\* MCPResource.on_post for any posted body: a body that is no JSON is answered
\* with a parse error under id None.
McpOnPostBody(parsed, raw) ==
    IF ~parsed THEN RpcFailure("", PARSE_ERROR, "Parse error") ELSE McpOnPost(raw)

(***************************************************************************)
(* The Bridge: MCPClient.invoke_tool as event_stream calls it.             *)
(***************************************************************************)
ToolsCall == <<"tools", "/", "call">>

\* JSONRPCRequest(method="tools/call", params={"name":..., "arguments":...}).dict()
ToolsCallPayload(original_tool_name, input) ==
    [id |-> "uuid4",
     method |-> ToolsCall,
     params |-> [keys |-> {"name", "arguments"}, name |-> original_tool_name,
                 arguments |-> input, a |-> 0, b |-> 0]]

\* What one HTTP exchange with the tool service ends in: a JSON body, or an
\* exception of the transport (connection refused, timeout, HTTP error status,
\* a body that is no JSON).
Answer(data) == [kind |-> "body", data |-> data, message |-> ""]
TransportFailure(message) == [kind |-> "transport", data |-> RpcResult("", NoValue), message |-> message]

\* Answers of a tool service other than the repository's.
ExternalAnswers(payload) ==
    {Answer(RpcResult(payload.id, ContentValue(<<TextItem("7")>>, "{'content': [{'type': 'text', 'text': '7'}]}"))),
     Answer(RpcResult(payload.id, DictValue("{'result': 7}"))),
     Answer(RpcResult(payload.id, ScalarValue("7"))),
     Answer(RpcFailure(payload.id, INTERNAL_ERROR, "Internal error")),
     Answer(RpcResult(payload.id, NoValue)),
     TransportFailure("ReadTimeout")}

\* Answers of the repository's own service.
RepoAnswers(payload) == {Answer(McpOnPost(payload)), TransportFailure("ConnectError")}

ServiceAnswers(payload) ==
    IF service = "repo" THEN RepoAnswers(payload) ELSE ExternalAnswers(payload)

\* The outcome of a Python call: a value returned or an exception raised.
Returned(value) == [raised |-> FALSE, value |-> value, message |-> ""]
Raised(message) == [raised |-> TRUE, value |-> NoValue, message |-> message]

\* A constructor that only asks for one of result / error to be there.
JSONRPCResponseAnyOf(data) == data.has_id /\ ~(data.result.isnone /\ data.error.isnone)

\* JSONRPCResponse.__init__: exactly one of result / error.
JSONRPCResponseValid(data) == data.has_id /\ (data.result.isnone # data.error.isnone)

\* MCPClient.invoke_tool: _request, JSONRPCResponse(**data), rpc.error, rpc.result.
InvokeTool(answer) ==
    IF answer.kind = "transport" THEN Raised(answer.message)
    ELSE IF ~JSONRPCResponseValid(answer.data)
    THEN Raised("Response must have exactly one of 'result' or 'error'.")
    ELSE IF ~answer.data.error.isnone
    THEN Raised("invoke_tool failed (code=" \o CodeStr(answer.data.error.code) \o "): "
                \o answer.data.error.message)
    ELSE Returned(answer.data.result)

(***************************************************************************)
(* The transcript, the stored conversation and the SSE chunks.             *)
(***************************************************************************)
\* An entry of the messages list handed to the provider.
Msg(role, content) == [role |-> role, content |-> content, tool_calls |-> <<>>, tool_call_id |-> ""]
AssistantMsg(content, calls) == [role |-> "assistant", content |-> content, tool_calls |-> calls, tool_call_id |-> ""]
ToolMsg(content, id) == [role |-> "tool", content |-> content, tool_calls |-> <<>>, tool_call_id |-> id]

\* MessageModel(...).model_dump(): members that are None or were never set are "" / <<>>.
StoredMessage(role, content, thinking, calls, results) ==
    [role |-> role, content |-> content, thinking |-> thinking,
     tool_calls |-> calls, tool_results |-> results]

Heartbeat == [kind |-> "heartbeat"]
ToolStartChunk(id, name) == [kind |-> "tool_start", id |-> id, name |-> name]
ToolArgsChunk(id, fragment) == [kind |-> "tool_args", id |-> id, arguments |-> fragment]
ContentChunk(text) == [kind |-> "content", text |-> text]
ThinkingChunk(text) == [kind |-> "thinking", text |-> text]
\* A tool_result chunk that leaves the id of the call out.
ToolResultChunkWithoutId(record) ==
    [kind |-> "tool_result", tool_result |-> [record EXCEPT !.tool_call_id = ""]]
ToolResultChunk(record) == [kind |-> "tool_result", tool_result |-> record]
StopChunk == [kind |-> "stop"]
DoneMarker == [kind |-> "done"]
ErrorChunk(message) == [kind |-> "error", message |-> message]

NoTool == [open |-> FALSE, id |-> "", name |-> <<>>]
OpenTool(id, name) == [open |-> TRUE, id |-> id, name |-> name]
ToolCall(id, name, input) == [id |-> id, name |-> name, input |-> input]

(***************************************************************************)
(* Provider events, as the attribute probes of event_stream see them.      *)
(*   type  : chunk.type, "absent" when the chunk has none                  *)
(*   block : content_block.type; "absent" = no content_block,              *)
(*           "untyped" = a content_block without a type                    *)
(*   delta : which of text / thinking / partial_json chunk.delta carries;  *)
(*           "other" = none of them, "absent" = no delta                   *)
(***************************************************************************)
Ev(type, block, delta, id, name, text) ==
    [type |-> type, block |-> block, delta |-> delta, id |-> id, name |-> name, text |-> text]

ToolUseStart(id, name) == Ev("content_block_start", "tool_use", "absent", id, name, "")
TextDelta(text) == Ev("content_block_delta", "absent", "text", "", <<>>, text)
ThinkingDelta(text) == Ev("content_block_delta", "absent", "thinking", "", <<>>, text)
InputJsonDelta(text) == Ev("content_block_delta", "absent", "partial_json", "", <<>>, text)
BlockStop == Ev("content_block_stop", "absent", "absent", "", <<>>, "")
UntypedText(text) == Ev("absent", "absent", "text", "", <<>>, text)
UntypedBlockStart == Ev("content_block_start", "untyped", "absent", "", <<>>, "")

\* Events no branch of the first pass acts on.
PlainEvents ==
    {Ev("content_block_start", "text", "absent", "", <<>>, ""),
     Ev("content_block_start", "absent", "absent", "", <<>>, ""),
     Ev("content_block_delta", "absent", "other", "", <<>>, ""),
     Ev("content_block_delta", "absent", "absent", "", <<>>, ""),
     Ev("message_delta", "absent", "other", "", <<>>, ""),
     Ev("message_stop", "absent", "absent", "", <<>>, ""),
     Ev("absent", "absent", "absent", "", <<>>, "")}

ToolId(n) == "toolu_" \o IntStr(n)

\* What the body of "async for chunk in ..." of the first pass does with one
\* chunk: the new locals, the chunks yielded to the client, and whether an
\* exception left the loop.
Step(content, thinking, calls, tool, json, final, out, raised) ==
    [content |-> content, thinking |-> thinking, calls |-> calls, tool |-> tool,
     json |-> json, final |-> final, out |-> out, raised |-> raised]

Unmoved ==
    Step(assistant_content, assistant_thinking, tool_calls, current_tool, current_json,
         final_response_content, <<>>, FALSE)

\* A content_block_stop that keeps the buffer of a block it could not parse.
BlockStopStepKeepingBuffer ==
    IF current_tool.open
    THEN IF current_json # "" /\ JsonValid(current_json)
         THEN [Unmoved EXCEPT
                 !.calls = Append(tool_calls,
                                  ToolCall(current_tool.id, current_tool.name, JsonLoads(current_json))),
                 !.tool = NoTool,
                 !.json = ""]
         ELSE [Unmoved EXCEPT !.tool = NoTool]
    ELSE Unmoved

\* elif chunk.type == "content_block_stop"
BlockStopStep ==
    IF current_tool.open
    THEN [Unmoved EXCEPT
            !.calls = IF current_json # "" /\ JsonValid(current_json)
                      THEN Append(tool_calls,
                                  ToolCall(current_tool.id, current_tool.name, JsonLoads(current_json)))
                      ELSE tool_calls,
            !.tool = NoTool,
            !.json = ""]
    ELSE Unmoved

HandleChunk(ev) ==
    IF ev.type # "absent"
    THEN CASE ev.type = "content_block_start" ->
                IF ev.block = "absent" THEN Unmoved
                ELSE IF ev.block = "untyped" THEN [Unmoved EXCEPT !.raised = TRUE]
                ELSE IF ev.block = "tool_use"
                THEN [Unmoved EXCEPT !.tool = OpenTool(ev.id, ev.name),
                                     !.out = <<ToolStartChunk(ev.id, ev.name)>>]
                ELSE Unmoved
           [] ev.type = "content_block_delta" ->
                IF ev.delta = "absent" THEN Unmoved
                ELSE IF ev.delta = "text"
                THEN [Unmoved EXCEPT !.content = assistant_content \o ev.text,
                                     !.out = <<ContentChunk(ev.text)>>]
                ELSE IF ev.delta = "thinking"
                THEN [Unmoved EXCEPT !.thinking = assistant_thinking \o ev.text,
                                     !.out = <<ThinkingChunk(ev.text)>>]
                ELSE IF ev.delta = "partial_json" /\ current_tool.open
                THEN [Unmoved EXCEPT !.json = current_json \o ev.text,
                                     !.out = <<ToolArgsChunk(current_tool.id, ev.text)>>]
                ELSE Unmoved
           [] ev.type = "content_block_stop" -> BlockStopStep
           [] OTHER -> Unmoved
    ELSE IF ev.delta = "text"
         THEN [Unmoved EXCEPT !.content = assistant_content \o ev.text,
                              !.out = <<ContentChunk(ev.text)>>]
         ELSE Unmoved

\* The loop body of the second pass: text deltas only.
HandleFinalChunk(ev) ==
    IF ev.type = "content_block_delta" /\ ev.delta = "text"
    THEN [Unmoved EXCEPT !.final = final_response_content \o ev.text,
                         !.out = <<ContentChunk(ev.text)>>]
    ELSE Unmoved

(***************************************************************************)
(* on_post of ConversationMessageResource, up to the call of               *)
(* _handle_streaming_llm_response.                                         *)
(***************************************************************************)
PostBodies ==
    {[fields |-> {"role", "content"}, role |-> "user", content |-> "add 3 and 4"],
     [fields |-> {"role"}, role |-> "user", content |-> ""],
     [fields |-> {"role", "content"}, role |-> "assistant", content |-> "hello"],
     [fields |-> {"role", "content"}, role |-> "bot", content |-> "hello"]}

Roles == {"user", "assistant", "system", "tool"}

\* The agent profile of the conversation: found, not stored (find_one gives
\* None), or the conversation has an empty agent_profile_id.
Profiles == {"found", "missing", "no_id"}

Respond(status) ==
    /\ http' = status
    /\ pc' = "responded"

\* messages.append({"role": msg.role, "content": msg.content or ""})
RECURSIVE Transcript(_)
Transcript(stored) ==
    IF stored = <<>> THEN <<>>
    ELSE <<Msg(Head(stored).role, Head(stored).content)>> \o Transcript(Tail(stored))

\* An on_post that stores the message before it looks at its role.
OnPostStoringFirst ==
    /\ pc = "post"
    /\ \E found \in BOOLEAN, data \in PostBodies, profile \in Profiles :
          IF ~found
          THEN Respond(404) /\ UNCHANGED <<conversation, messages>>
          ELSE IF ~({"role", "content"} \subseteq data.fields)
          THEN Respond(400) /\ UNCHANGED <<conversation, messages>>
          ELSE IF data.role \notin Roles
          THEN Respond(400) /\ UNCHANGED <<conversation, messages>>
          ELSE IF data.role # "user"
          THEN /\ Respond(400)
               /\ conversation' =
                    Append(conversation, StoredMessage(data.role, data.content, "", <<>>, <<>>))
               /\ UNCHANGED messages
          ELSE /\ conversation' =
                    Append(conversation, StoredMessage("user", data.content, "", <<>>, <<>>))
               /\ IF profile = "found"
                  THEN /\ messages' = Transcript(conversation')
                       /\ pc' = "setup"
                       /\ UNCHANGED http
                  ELSE Respond(500) /\ UNCHANGED messages
    /\ UNCHANGED <<settings, ex, history, service, tools, tool_name_mapping, tool_results, tool_index,
                   sse, completions, invoked, appendCalls, fed, decoded, call, requests>>
    /\ UNCHANGED accVars

OnPost ==
    /\ pc = "post"
    /\ \E found \in BOOLEAN, data \in PostBodies, profile \in Profiles :
          IF ~found
          THEN Respond(404) /\ UNCHANGED <<conversation, messages>>
          ELSE IF ~({"role", "content"} \subseteq data.fields)
          THEN Respond(400) /\ UNCHANGED <<conversation, messages>>
          ELSE IF data.role \notin Roles
          THEN Respond(400) /\ UNCHANGED <<conversation, messages>>
          ELSE IF data.role # "user"
          THEN Respond(400) /\ UNCHANGED <<conversation, messages>>
          ELSE /\ conversation' =
                    Append(conversation, StoredMessage("user", data.content, "", <<>>, <<>>))
               /\ IF profile = "found"
                  THEN /\ messages' = Transcript(conversation')
                       /\ pc' = "setup"
                       /\ UNCHANGED http
                  ELSE Respond(500) /\ UNCHANGED messages
    /\ UNCHANGED <<settings, ex, history, service, tools, tool_name_mapping, tool_results, tool_index,
                   sse, completions, invoked, appendCalls, fed, decoded, call, requests>>
    /\ UNCHANGED accVars

(***************************************************************************)
(* _handle_streaming_llm_response up to resp.stream = event_stream():      *)
(* list_tools and the name mapping, a failure leaving both empty.          *)
(***************************************************************************)
ExternalToolDefs == <<<<"calc", ".", "add">>>>

ListToolsOutcomes ==
    {[raised |-> FALSE, raw_tools |-> IF service = "repo" THEN RepoToolDefs ELSE ExternalToolDefs],
     [raised |-> TRUE, raw_tools |-> <<>>]}

\* A setup that answers 500 when list_tools fails.
LoadToolsOrFail ==
    /\ pc = "setup"
    /\ \E listed \in ListToolsOutcomes :
          IF listed.raised
          THEN Respond(500) /\ UNCHANGED <<tools, tool_name_mapping>>
          ELSE /\ tools' = [i \in DOMAIN listed.raw_tools |-> ReplaceDots(listed.raw_tools[i])]
               /\ tool_name_mapping' = BuildMapping(listed.raw_tools)
               /\ pc' = "start"
               /\ UNCHANGED http
    /\ UNCHANGED <<settings, ex, history, service, conversation, messages, tool_results, tool_index,
                   sse, completions, invoked, appendCalls, fed, decoded, call, requests>>
    /\ UNCHANGED accVars

LoadTools ==
    /\ pc = "setup"
    /\ \E listed \in ListToolsOutcomes :
          IF listed.raised
          THEN tools' = <<>> /\ tool_name_mapping' = <<>>
          ELSE /\ tools' = [i \in DOMAIN listed.raw_tools |-> ReplaceDots(listed.raw_tools[i])]
               /\ tool_name_mapping' = BuildMapping(listed.raw_tools)
    /\ pc' = "start"
    /\ UNCHANGED <<settings, ex, history, service, http, conversation, messages, tool_results, tool_index,
                   sse, completions, invoked, appendCalls, fed, decoded, call, requests>>
    /\ UNCHANGED accVars

(***************************************************************************)
(* LLMHelper.stream_chat_completion: the parameters of the request.        *)
(* thinking_budget 0 stands for thinking=None; temperature is in tenths.   *)
(***************************************************************************)
Max(a, b) == IF a >= b THEN a ELSE b

ThinkingBudget(budget, max_tokens) ==
    IF budget >= max_tokens THEN Max(1024, max_tokens - 1024) ELSE budget

CompletionParams(msgs, temperature, max_tokens, offered, thinking_budget) ==
    [messages |-> msgs,
     max_tokens |-> max_tokens,
     temperature |-> temperature,
     tools |-> offered,
     tool_choice |-> IF offered # <<>> THEN "auto" ELSE "absent",
     thinking |-> IF thinking_budget > 0 THEN ThinkingBudget(thinking_budget, max_tokens) ELSE 0]

\* LLMHelper.generate_completion: the parameters of its messages.create call.
GenerateBudget(budget, max_tokens) ==
    IF budget >= max_tokens THEN max_tokens - 1 ELSE budget

GenerateParams(msgs, temperature, max_tokens, thinking_budget) ==
    [messages |-> msgs,
     max_tokens |-> max_tokens,
     temperature |-> temperature,
     tools |-> <<>>,
     tool_choice |-> "absent",
     thinking |-> IF thinking_budget > 0 THEN GenerateBudget(thinking_budget, max_tokens) ELSE 0]

(***************************************************************************)
(* event_stream.                                                           *)
(***************************************************************************)
\* str(e) of an exception of the provider client
ErrorText(e) == e.cls

\* An except clause that closes the stream the way a completed one is closed.
OnStreamingErrorThenDone(message) ==
    /\ sse' = sse \o <<ErrorChunk(message), DoneMarker>>
    /\ pc' = "failed"

\* except Exception as e: one error chunk, and the generator ends.
OnStreamingError(message) ==
    /\ sse' = Append(sse, ErrorChunk(message))
    /\ pc' = "failed"

\* The heartbeat, the locals, and the first stream_chat_completion call.
StartStream ==
    /\ pc = "start"
    /\ sse' = <<Heartbeat>>
    /\ assistant_content' = ""
    /\ assistant_thinking' = ""
    /\ tool_calls' = <<>>
    /\ current_tool' = NoTool
    /\ current_json' = ""
    /\ UNCHANGED final_response_content
    /\ completions' = Append(completions, CompletionParams(messages, 10, 4096, tools, 1024))
    /\ ex' = NewExecutor("stream")
    /\ pc' = "pass1"
    /\ UNCHANGED <<settings, history, service, http, conversation, messages, tools, tool_name_mapping,
                   tool_results, tool_index, invoked, appendCalls, fed, decoded, call, requests>>

InPass == pc \in {"pass1", "pass2"}

PassOpen ==
    /\ InPass
    /\ ex.status = "attempting"
    /\ ex' = Opened(ex)
    /\ UNCHANGED <<settings, history, pc, service, http, conversation, messages, tools, tool_name_mapping,
                   tool_results, tool_index, sse, completions, invoked, appendCalls, fed, decoded, call, requests>>
    /\ UNCHANGED accVars

\* The provider fails with e: the executor sleeps before its next attempt,
\* or the exception leaves it, passes stream_chat_completion and reaches the
\* except clause of event_stream.
Fault(e) ==
    /\ fed.faults < MaxUpstreamFaults
    /\ fed' = [fed EXCEPT !.faults = @ + 1]
    /\ LET decision == StreamClassify(e, ex.attempt, ex.max_retries)
       IN  /\ ex' = Failed(ex, decision)
           /\ IF decision = "retry"
              THEN UNCHANGED <<sse, pc>>
              ELSE OnStreamingError(ErrorText(Propagated(e, decision)))
    /\ UNCHANGED <<settings, history, service, http, conversation, messages, tools, tool_name_mapping,
                   tool_results, tool_index, completions, invoked, appendCalls, decoded, call, requests>>
    /\ UNCHANGED accVars

\* The failures of the provider that one request is served against: an
\* overload, and a lost connection.
PassFaults == {APIStatusError(TypedBody("overloaded_error")), APIConnectionError}

PassOpenFails ==
    /\ InPass
    /\ ex.status = "attempting"
    /\ \E e \in PassFaults : Fault(e)

PassBreaks ==
    /\ InPass
    /\ ex.status = "streaming"
    /\ \E e \in PassFaults : Fault(e)

PassWake ==
    /\ InPass
    /\ ex.status = "sleeping"
    /\ ex' = Woken(ex)
    /\ UNCHANGED <<settings, history, pc, service, http, conversation, messages, tools, tool_name_mapping,
                   tool_results, tool_index, sse, completions, invoked, appendCalls, fed, decoded, call, requests>>
    /\ UNCHANGED accVars

\* The events the provider can send next in the first pass.
OfferedChoices == IF tools = <<>> THEN {} ELSE {1}

ToolEvents ==
    IF fed.blocks < MaxToolBlocks
    THEN {ToolUseStart(ToolId(fed.blocks + 1), tools[k]) : k \in OfferedChoices}
    ELSE {}

TextEvents ==
    IF fed.deltas < MaxDeltas
    THEN {TextDelta(TextToken(fed.deltas + 1)), UntypedText(TextToken(fed.deltas + 1))}
    ELSE {}

ThinkingEvents ==
    IF fed.deltas < MaxDeltas THEN {ThinkingDelta(t) : t \in ThinkingDeltas} ELSE {}

FragmentEvents ==
    IF fed.deltas < MaxDeltas
    THEN {InputJsonDelta(f) : f \in (IF fed.inblock = 0 THEN FirstFragments ELSE NextFragments)}
    ELSE {}

NoiseEvents ==
    IF fed.noise < MaxNoise THEN PlainEvents \cup {UntypedBlockStart} ELSE {}

\* A content_block_stop counts as noise unless it closes an open tool call.
StopEvents ==
    IF current_tool.open \/ fed.noise < MaxNoise THEN {BlockStop} ELSE {}

Pass1Events ==
    IF fed.events < MaxEvents
    THEN ToolEvents \cup TextEvents \cup ThinkingEvents \cup FragmentEvents
            \cup NoiseEvents \cup StopEvents
    ELSE {}

Sent(ev) ==
    CASE ev \in ToolEvents -> [fed EXCEPT !.events = @ + 1, !.blocks = @ + 1, !.inblock = 0]
      [] ev \in TextEvents -> [fed EXCEPT !.events = @ + 1, !.deltas = @ + 1]
      [] ev \in ThinkingEvents -> [fed EXCEPT !.events = @ + 1, !.deltas = @ + 1]
      [] ev \in FragmentEvents -> [fed EXCEPT !.events = @ + 1, !.deltas = @ + 1, !.inblock = @ + 1]
      [] ev = BlockStop /\ current_tool.open -> [fed EXCEPT !.events = @ + 1]
      [] OTHER -> [fed EXCEPT !.events = @ + 1, !.noise = @ + 1]

\* The chunk carries something to relay or to accumulate: the start of a
\* tool-use block, or a delta with text, thinking or partial_json.
CarriesPayload(ev) == ev.block = "tool_use" \/ ev.delta \in {"text", "thinking", "partial_json"}

\* "async for chunk in ...": the log of the payload-carrying chunks after the
\* loop of a pass has received ev.
Received(pass, ev) ==
    IF decoded.recording /\ CarriesPayload(ev)
    THEN [decoded EXCEPT !.events = Append(@, [pass |-> pass, ev |-> ev])]
    ELSE decoded

\* A loop body whose chunks overtake the chunk sent before them.
ApplyOvertaking(step) ==
    /\ assistant_content' = step.content
    /\ assistant_thinking' = step.thinking
    /\ tool_calls' = step.calls
    /\ current_tool' = step.tool
    /\ current_json' = step.json
    /\ final_response_content' = step.final
    /\ IF step.raised
       THEN OnStreamingError("AttributeError")
       ELSE /\ sse' = SubSeq(sse, 1, Len(sse) - 1) \o step.out \o <<sse[Len(sse)]>>
            /\ UNCHANGED pc

\* The locals after one turn of a loop body, and its chunks on the wire.
Apply(step) ==
    /\ assistant_content' = step.content
    /\ assistant_thinking' = step.thinking
    /\ tool_calls' = step.calls
    /\ current_tool' = step.tool
    /\ current_json' = step.json
    /\ final_response_content' = step.final
    /\ IF step.raised
       THEN OnStreamingError("AttributeError")
       ELSE sse' = sse \o step.out /\ UNCHANGED pc

Pass1Event ==
    /\ pc = "pass1"
    /\ ex.status = "streaming"
    /\ \E ev \in Pass1Events :
          /\ fed' = Sent(ev)
          /\ decoded' = Received(1, ev)
          /\ Apply(HandleChunk(ev))
    /\ UNCHANGED <<settings, ex, history, service, http, conversation, messages, tools,
                   tool_name_mapping, tool_results, tool_index, completions, invoked, appendCalls, call, requests>>

\* The first stream is exhausted: tool_results = [], and "if tool_calls:".
Pass1End ==
    /\ pc = "pass1"
    /\ ex.status = "streaming"
    /\ ex' = Completed(ex)
    /\ tool_results' = <<>>
    /\ tool_index' = 1
    /\ pc' = IF tool_calls # <<>> THEN "tools" ELSE "finalize"
    /\ UNCHANGED <<settings, history, service, http, conversation, messages, tools, tool_name_mapping,
                   sse, completions, invoked, appendCalls, fed, decoded, call, requests>>
    /\ UNCHANGED accVars

(***************************************************************************)
(* The tool phase: one turn of "for tool_call in tool_calls".              *)
(***************************************************************************)
\* content = tool_result.get("content", []) ... result_text
ResultText(value) ==
    IF ~value.isdict
    THEN Raised("'int' object has no attribute 'get'")
    ELSE IF value.has_content /\ value.content # <<>>
    THEN IF ~value.content[1].isdict
         THEN Raised("'str' object has no attribute 'get'")
         ELSE Returned(IF value.content[1].has_text THEN value.content[1].text ELSE value.repr)
    ELSE Returned(value.repr)

\* The try block: invoke_tool and the extraction of the text.
TryInvoke(answer) ==
    LET called == InvokeTool(answer)
    IN  IF called.raised THEN called
        ELSE LET text == ResultText(called.value)
             IN  IF text.raised THEN Raised(text.message)
                 ELSE [raised |-> FALSE, value |-> called.value, message |-> text.value]

\* An except clause that records nothing for a failed call.
ToolResultsDroppingErrors(tool_call, tried) ==
    IF tried.raised THEN <<>>
    ELSE <<[tool_call_id |-> tool_call.id, content |-> tried.message]>>

\* The record appended to tool_results and relayed, by the try block or by
\* the except clause.
ToolResults(tool_call, tried) ==
    IF tried.raised
    THEN <<[tool_call_id |-> tool_call.id,
            content |-> "Error executing " \o NameStr(tool_call.name) \o ": " \o tried.message]>>
    ELSE <<[tool_call_id |-> tool_call.id, content |-> tried.message]>>

RECURSIVE Relay(_)
Relay(records) ==
    IF records = <<>> THEN <<>>
    ELSE <<ToolResultChunk(Head(records))>> \o Relay(Tail(records))

ToolPhaseStep ==
    /\ pc = "tools"
    /\ tool_index <= Len(tool_calls)
    /\ LET tool_call == tool_calls[tool_index]
           payload == ToolsCallPayload(OriginalName(tool_name_mapping, tool_call.name), tool_call.input)
       IN  \E answer \in ServiceAnswers(payload) :
              LET tried == TryInvoke(answer)
                  records == ToolResults(tool_call, tried)
              IN  /\ invoked' = Append(invoked, [payload |-> payload, answer |-> answer,
                                                 failed |-> tried.raised])
                  /\ tool_results' = tool_results \o records
                  /\ sse' = sse \o Relay(records)
    /\ tool_index' = tool_index + 1
    /\ UNCHANGED <<settings, ex, history, pc, service, http, conversation, messages, tools, tool_name_mapping,
                   completions, appendCalls, fed, decoded, call, requests>>
    /\ UNCHANGED accVars

\* "function": {"name": tc["name"], "arguments": json.dumps(tc["input"])}
RECURSIVE FunctionCalls(_)
FunctionCalls(calls) ==
    IF calls = <<>> THEN <<>>
    ELSE <<[id |-> Head(calls).id, name |-> Head(calls).name,
            arguments |-> JsonDumps(Head(calls).input)]>> \o FunctionCalls(Tail(calls))

RECURSIVE ToolMessages(_)
ToolMessages(results) ==
    IF results = <<>> THEN <<>>
    ELSE <<ToolMsg(Head(results).content, Head(results).tool_call_id)>> \o ToolMessages(Tail(results))

RECURSIVE Reversed(_)
Reversed(seq) == IF seq = <<>> THEN <<>> ELSE Append(Reversed(Tail(seq)), Head(seq))

\* A transcript whose tool messages come in the order the results came last.
UpdatedMessagesNewestFirst ==
    messages \o <<AssistantMsg(assistant_content, FunctionCalls(tool_calls))>>
             \o ToolMessages(Reversed(tool_results))

\* updated_messages
UpdatedMessages ==
    messages \o <<AssistantMsg(assistant_content, FunctionCalls(tool_calls))>>
             \o ToolMessages(tool_results)

\* A tool phase that asks for no follow-up completion once a call has failed.
StartPass2UnlessFailed ==
    /\ pc = "tools"
    /\ tool_index > Len(tool_calls)
    /\ IF tool_results # <<>> /\ \A i \in DOMAIN invoked : ~invoked[i].failed
       THEN /\ completions' = Append(completions, CompletionParams(UpdatedMessages, 10, 4096, <<>>, 0))
            /\ ex' = NewExecutor("stream")
            /\ final_response_content' = ""
            /\ pc' = "pass2"
       ELSE /\ pc' = "finalize"
            /\ UNCHANGED <<completions, ex, final_response_content>>
    /\ UNCHANGED <<settings, history, service, http, conversation, messages, tools, tool_name_mapping,
                   assistant_content, assistant_thinking, tool_calls, current_tool, current_json,
                   tool_results, tool_index, sse, invoked, appendCalls, fed, decoded, call, requests>>

\* The loop is over: "if tool_results:" and the follow-up completion call.
StartPass2 ==
    /\ pc = "tools"
    /\ tool_index > Len(tool_calls)
    /\ IF tool_results # <<>>
       THEN /\ completions' = Append(completions, CompletionParams(UpdatedMessages, 10, 4096, <<>>, 0))
            /\ ex' = NewExecutor("stream")
            /\ final_response_content' = ""
            /\ pc' = "pass2"
       ELSE /\ pc' = "finalize"
            /\ UNCHANGED <<completions, ex, final_response_content>>
    /\ UNCHANGED <<settings, history, service, http, conversation, messages, tools, tool_name_mapping,
                   assistant_content, assistant_thinking, tool_calls, current_tool, current_json,
                   tool_results, tool_index, sse, invoked, appendCalls, fed, decoded, call, requests>>

\* Events of the second pass: any event of the first pass's shapes.
Pass2Events ==
    IF fed.final < MaxFinalEvents /\ fed.events < MaxEvents
    THEN {TextDelta("c"), UntypedText("c"), ThinkingDelta("hm"), InputJsonDelta("{}"), BlockStop,
                  ToolUseStart("toolu_9", <<"math", "_", "_", "add">>), UntypedBlockStart}
            \cup PlainEvents
    ELSE {}

Pass2Event ==
    /\ pc = "pass2"
    /\ ex.status = "streaming"
    /\ \E ev \in Pass2Events :
          /\ decoded' = Received(2, ev)
          /\ Apply(HandleFinalChunk(ev))
    /\ fed' = [fed EXCEPT !.events = @ + 1, !.final = @ + 1]
    /\ UNCHANGED <<settings, ex, history, service, http, conversation, messages, tools,
                   tool_name_mapping, tool_results, tool_index, completions, invoked, appendCalls, call, requests>>

\* assistant_content += final_response_content
Pass2End ==
    /\ pc = "pass2"
    /\ ex.status = "streaming"
    /\ ex' = Completed(ex)
    /\ assistant_content' = assistant_content \o final_response_content
    /\ pc' = "finalize"
    /\ UNCHANGED <<settings, history, service, http, conversation, messages, tools, tool_name_mapping,
                   assistant_thinking, tool_calls, current_tool, current_json, final_response_content,
                   tool_results, tool_index, sse, completions, invoked, appendCalls, fed, decoded, call, requests>>

(***************************************************************************)
(* The completion chunk, [DONE], and _save_assistant_message.              *)
(***************************************************************************)
Finalize ==
    /\ pc = "finalize"
    /\ sse' = sse \o <<StopChunk, DoneMarker>>
    /\ pc' = "save"
    /\ UNCHANGED <<settings, ex, history, service, http, conversation, messages, tools, tool_name_mapping,
                   tool_results, tool_index, completions, invoked, appendCalls, fed, decoded, call, requests>>
    /\ UNCHANGED accVars

\* A guard that also skips a message that has tool calls but no text.
NothingToSaveButCalls == assistant_content = "" /\ assistant_thinking = ""

\* if not content and not thinking and not reasoning and not tool_calls: return
NothingToSave == assistant_content = "" /\ assistant_thinking = "" /\ tool_calls = <<>>

\* A message that keeps the text of the follow-up completion only.
AssistantMessageOfFinalResponse ==
    StoredMessage("assistant", final_response_content, assistant_thinking, tool_calls, tool_results)

AssistantMessage ==
    StoredMessage("assistant", assistant_content, assistant_thinking, tool_calls, tool_results)

\* A persistence step whose failed write reaches the except clause of
\* event_stream.
SaveAssistantMessageReporting ==
    /\ pc = "save"
    /\ IF NothingToSave
       THEN UNCHANGED <<conversation, appendCalls, sse>>
       ELSE /\ appendCalls' = appendCalls + 1
            /\ \E stored \in BOOLEAN :
                  IF stored
                  THEN conversation' = Append(conversation, AssistantMessage) /\ UNCHANGED sse
                  ELSE sse' = Append(sse, ErrorChunk("write failed")) /\ UNCHANGED conversation
    /\ pc' = "closed"
    /\ UNCHANGED <<settings, ex, history, service, http, messages, tools, tool_name_mapping,
                   tool_results, tool_index, completions, invoked, fed, decoded, call, requests>>
    /\ UNCHANGED accVars

SaveAssistantMessage ==
    /\ pc = "save"
    /\ IF NothingToSave
       THEN UNCHANGED <<conversation, appendCalls>>
       ELSE /\ appendCalls' = appendCalls + 1
            /\ \E stored \in BOOLEAN :
                  conversation' = IF stored THEN Append(conversation, AssistantMessage)
                                  ELSE conversation
    /\ pc' = "closed"
    /\ UNCHANGED <<settings, ex, history, service, http, messages, tools, tool_name_mapping,
                   tool_results, tool_index, sse, completions, invoked, fed, decoded, call, requests>>
    /\ UNCHANGED accVars

(***************************************************************************)
(* LLMHelper.stream_with_tool_execution: the helper's own two passes.      *)
(* tool_calls, current_tool, current_json, assistant_content stand for its *)
(* locals tool_calls, current_tool_call, current_tool_input and            *)
(* "".join(response_content).                                             *)
(***************************************************************************)
Temperatures == {7, 10}
MaxTokensArgs == {0}              \* 0: max_tokens=None
ThinkingArgs == {0, 1024, 4096}   \* 0: thinking=None, else budget_tokens

\* max_tokens or 4096
EffectiveMax(max_tokens) == IF max_tokens = 0 THEN 4096 ELSE max_tokens

\* yield chunk: the caller is handed the chunk itself; sse counts the hand-overs.
Yielded(ev) == [kind |-> "event"]

\* The body of the helper's first "async for", after the yield.
CollectChunk(ev) ==
    IF ev.type = "content_block_start"
    THEN IF ev.block = "absent" THEN Unmoved
         ELSE IF ev.block = "untyped" THEN [Unmoved EXCEPT !.raised = TRUE]
         ELSE IF ev.block = "tool_use"
         THEN [Unmoved EXCEPT !.tool = OpenTool(ev.id, ev.name), !.json = ""]
         ELSE Unmoved
    ELSE IF ev.type = "content_block_delta"
    THEN IF ev.delta = "text"
         THEN [Unmoved EXCEPT !.content = assistant_content \o ev.text]
         ELSE IF ev.delta = "partial_json" /\ current_tool.open
         THEN [Unmoved EXCEPT !.json = current_json \o ev.text]
         ELSE Unmoved
    ELSE IF ev.type = "content_block_stop" THEN BlockStopStep
    ELSE Unmoved

\* The call, up to the first stream_chat_completion: thinking=None.
ExecCall ==
    /\ pc = "call"
    /\ \E temperature \in Temperatures, max_tokens \in MaxTokensArgs, thinking \in ThinkingArgs,
          offered \in {<<>>, <<ReplaceDots(MathAdd)>>} :
          /\ call' = [temperature |-> temperature, max_tokens |-> max_tokens, thinking |-> thinking]
          /\ tools' = offered
          /\ messages' = <<Msg("user", "add 3 and 4")>>
          /\ completions' = Append(completions,
                CompletionParams(messages', temperature, EffectiveMax(max_tokens), offered, 0))
    /\ pc' = "pass1"
    /\ UNCHANGED <<settings, ex, history, service, http, conversation, tool_name_mapping,
                   tool_results, tool_index, sse, invoked, appendCalls, fed, decoded, requests>>
    /\ UNCHANGED accVars

\* An exception leaves the generator: what stream_chat_completion raises, or
\* the loop body.
ExecRaised ==
    /\ pc' = "failed"

ExecFails ==
    /\ pc \in {"pass1", "pass2"}
    /\ fed.faults < MaxUpstreamFaults
    /\ fed' = [fed EXCEPT !.faults = @ + 1]
    /\ ExecRaised
    /\ UNCHANGED <<settings, ex, history, service, http, conversation, messages, tools, tool_name_mapping,
                   tool_results, tool_index, sse, completions, invoked, appendCalls, decoded, call, requests>>
    /\ UNCHANGED accVars

ExecPass1Event ==
    /\ pc = "pass1"
    /\ \E ev \in Pass1Events :
          LET step == CollectChunk(ev)
          IN  /\ fed' = Sent(ev)
              /\ decoded' = Received(1, ev)
              /\ sse' = Append(sse, Yielded(ev))
              /\ assistant_content' = step.content
              /\ tool_calls' = step.calls
              /\ current_tool' = step.tool
              /\ current_json' = step.json
              /\ IF step.raised THEN ExecRaised ELSE UNCHANGED pc
    /\ UNCHANGED <<settings, ex, history, service, http, conversation, messages, tools,
                   tool_name_mapping, assistant_thinking, final_response_content,
                   tool_results, tool_index, completions, invoked, appendCalls, call, requests>>

\* "if tool_calls:" and messages.append(assistant_msg)
ExecPass1End ==
    /\ pc = "pass1"
    /\ IF tool_calls # <<>>
       THEN /\ messages' = Append(messages, AssistantMsg(assistant_content, tool_calls))
            /\ pc' = "tools"
       ELSE /\ pc' = "closed"
            /\ UNCHANGED messages
    /\ tool_results' = <<>>
    /\ tool_index' = 1
    /\ UNCHANGED <<settings, ex, history, service, http, conversation, tools, tool_name_mapping,
                   sse, completions, invoked, appendCalls, fed, decoded, call, requests>>
    /\ UNCHANGED accVars

\* mcp.invoke_tool(method=tool_call["name"], params=tool_call["input"], request_id=tool_call["id"])
ExecPayload(tool_call) == [id |-> tool_call.id, method |-> tool_call.name, params |-> tool_call.input]

\* json.dumps(tool_result) if not isinstance(tool_result, str) else tool_result
DumpsResult(value) ==
    CASE value.isnone -> "null"
      [] value.has_content -> "{\"content\": [{\"type\": \"text\", \"text\": \"7\"}]}"
      [] value.repr = "{'result': 7}" -> "{\"result\": 7}"
      [] value.repr = "special" -> "{}"
      [] OTHER -> value.repr

\* The tool_result block of one call, from the try block or the except clause.
ExecToolResult(tool_call, called) ==
    IF called.raised
    THEN [tool_call_id |-> tool_call.id, content |-> "Error: " \o called.message, is_error |-> TRUE]
    ELSE [tool_call_id |-> tool_call.id, content |-> DumpsResult(called.value), is_error |-> FALSE]

ExecToolStep ==
    /\ pc = "tools"
    /\ tool_index <= Len(tool_calls)
    /\ LET tool_call == tool_calls[tool_index]
           payload == ExecPayload(tool_call)
       IN  \E answer \in ServiceAnswers(payload) :
              LET called == InvokeTool(answer)
              IN  /\ invoked' = Append(invoked, [payload |-> payload, answer |-> answer,
                                                 failed |-> called.raised])
                  /\ tool_results' = Append(tool_results, ExecToolResult(tool_call, called))
    /\ tool_index' = tool_index + 1
    /\ UNCHANGED <<settings, ex, history, pc, service, http, conversation, messages, tools, tool_name_mapping,
                   sse, completions, appendCalls, fed, decoded, call, requests>>
    /\ UNCHANGED accVars

\* {"role": "user", "content": tool_results}
ToolResultsMsg(results) == [role |-> "user", content |-> results, tool_calls |-> <<>>, tool_call_id |-> ""]

\* messages.append(tool_msg) and the second stream_chat_completion, called with
\* the tools, the tool_choice and the thinking of the call.
ExecStartPass2 ==
    /\ pc = "tools"
    /\ tool_index > Len(tool_calls)
    /\ messages' = IF tool_results # <<>> THEN Append(messages, ToolResultsMsg(tool_results))
                   ELSE messages
    /\ completions' = Append(completions,
          CompletionParams(messages', call.temperature, EffectiveMax(call.max_tokens), tools,
                           call.thinking))
    /\ pc' = "pass2"
    /\ UNCHANGED <<settings, ex, history, service, http, conversation, tools, tool_name_mapping,
                   tool_results, tool_index, sse, invoked, appendCalls, fed, decoded, call, requests>>
    /\ UNCHANGED accVars

\* The second "async for": yield chunk, nothing else.
ExecPass2Event ==
    /\ pc = "pass2"
    /\ \E ev \in Pass2Events :
          /\ decoded' = Received(2, ev)
          /\ sse' = Append(sse, Yielded(ev))
    /\ fed' = [fed EXCEPT !.events = @ + 1, !.final = @ + 1]
    /\ UNCHANGED <<settings, ex, history, pc, service, http, conversation, messages, tools,
                   tool_name_mapping, tool_results, tool_index, completions, invoked, appendCalls, call, requests>>
    /\ UNCHANGED accVars

ExecPass2End ==
    /\ pc = "pass2"
    /\ pc' = "closed"
    /\ UNCHANGED <<settings, ex, history, service, http, conversation, messages, tools, tool_name_mapping,
                   tool_results, tool_index, sse, completions, invoked, appendCalls, fed, decoded, call, requests>>
    /\ UNCHANGED accVars

(***************************************************************************)
(* One request, from the POST to the end of its answer.                    *)
(***************************************************************************)
NothingFed ==
    [events |-> 0, deltas |-> 0, blocks |-> 0, inblock |-> 0, noise |-> 0, final |-> 0,
     faults |-> 0]

\* The handler's state before a request is served.
Idle(position) ==
    /\ pc = position
    /\ http = 0
    /\ conversation = <<>>
    /\ messages = <<>>
    /\ tools = <<>>
    /\ tool_name_mapping = <<>>
    /\ assistant_content = ""
    /\ assistant_thinking = ""
    /\ tool_calls = <<>>
    /\ current_tool = NoTool
    /\ current_json = ""
    /\ final_response_content = ""
    /\ tool_results = <<>>
    /\ tool_index = 1
    /\ sse = <<>>
    /\ completions = <<>>
    /\ invoked = <<>>
    /\ appendCalls = 0
    /\ fed = NothingFed

MAX_RETRIES == 3
INITIAL_RETRY_DELAY == 1
MAX_RETRY_DELAY == 60
BACKOFF_MULTIPLIER == 2

DefaultSettings ==
    [MAX_RETRIES |-> MAX_RETRIES,
     INITIAL_RETRY_DELAY |-> INITIAL_RETRY_DELAY,
     MAX_RETRY_DELAY |-> MAX_RETRY_DELAY,
     BACKOFF_MULTIPLIER |-> BACKOFF_MULTIPLIER]

\* The request is served with one retry and the default delays.
StreamSettings == {[DefaultSettings EXCEPT !.MAX_RETRIES = 1]}

\* No requests are served side by side.
NoRequests == <<>>

\* No stream_with_tool_execution call is made.
NoCall == [temperature |-> 0, max_tokens |-> 0, thinking |-> 0]

\* The log of received events: kept, or left empty.
Recording == [recording |-> TRUE, events |-> <<>>]
NotRecording == [recording |-> FALSE, events |-> <<>>]

Init ==
    /\ settings \in StreamSettings
    /\ ex = NewExecutor("stream")
    /\ history = NoHistory
    /\ service \in {"repo", "external"}
    /\ decoded = NotRecording
    /\ call = NoCall
    /\ requests = NoRequests
    /\ Idle("post")

Next ==
    \/ OnPost
    \/ LoadTools
    \/ StartStream
    \/ PassOpen
    \/ PassOpenFails
    \/ PassBreaks
    \/ PassWake
    \/ Pass1Event
    \/ Pass1End
    \/ ToolPhaseStep
    \/ StartPass2
    \/ Pass2Event
    \/ Pass2End
    \/ Finalize
    \/ SaveAssistantMessage

Spec == Init /\ [][Next]_vars

\* One request served against the repository's tool service, the events it
\* receives from the provider recorded.
InitTrace ==
    /\ settings \in StreamSettings
    /\ ex = NewExecutor("stream")
    /\ history = NoHistory
    /\ service = "repo"
    /\ decoded = Recording
    /\ call = NoCall
    /\ requests = NoRequests
    /\ Idle("post")

SpecTrace == InitTrace /\ [][Next]_vars

\* One call of stream_with_tool_execution, the events it receives recorded.
InitExec ==
    /\ settings \in StreamSettings
    /\ ex = NewExecutor("stream")
    /\ history = NoHistory
    /\ service \in {"repo", "external"}
    /\ decoded = Recording
    /\ call = NoCall
    /\ requests = NoRequests
    /\ Idle("call")

NextExec ==
    \/ ExecCall
    \/ ExecFails
    \/ ExecPass1Event
    \/ ExecPass1End
    \/ ExecToolStep
    \/ ExecStartPass2
    \/ ExecPass2Event
    \/ ExecPass2End

SpecExec == InitExec /\ [][NextExec]_vars

(***************************************************************************)
(* The request parameters on their own: stream_chat_completion and         *)
(* generate_completion called with every max_tokens and thinking budget    *)
(* of the sets below, up to the request they hand to the executor.         *)
(***************************************************************************)
MaxTokensRange == {0, 1, 512, 1024, 1025, 2048, 2049, 4096, 8192}   \* 0: max_tokens=None
BudgetRange == {0, 1, 1024, 1025, 2047, 2048, 4095, 4096, 10000}    \* 0: thinking=None

StreamChatCompletionParams ==
    /\ pc = "call"
    /\ pc' = "streaming"
    /\ completions' = <<CompletionParams(<<>>, call.temperature, EffectiveMax(call.max_tokens),
                                         <<>>, call.thinking)>>
    /\ UNCHANGED <<settings, ex, history, service, http, conversation, messages, tools,
                   tool_name_mapping, assistant_content, assistant_thinking, tool_calls,
                   current_tool, current_json, final_response_content, tool_results,
                   tool_index, sse, invoked, appendCalls, fed, decoded, call, requests>>

GenerateCompletionParams ==
    /\ pc = "call"
    /\ pc' = "completing"
    /\ completions' = <<GenerateParams(<<>>, call.temperature, EffectiveMax(call.max_tokens),
                                       call.thinking)>>
    /\ UNCHANGED <<settings, ex, history, service, http, conversation, messages, tools,
                   tool_name_mapping, assistant_content, assistant_thinking, tool_calls,
                   current_tool, current_json, final_response_content, tool_results,
                   tool_index, sse, invoked, appendCalls, fed, decoded, call, requests>>

InitParams ==
    /\ settings = DefaultSettings
    /\ ex = NewExecutor("stream")
    /\ history = NoHistory
    /\ service = "repo"
    /\ decoded = NotRecording
    /\ call \in [temperature : Temperatures, max_tokens : MaxTokensRange, thinking : BudgetRange]
    /\ requests = NoRequests
    /\ Idle("call")

NextParams ==
    \/ StreamChatCompletionParams
    \/ GenerateCompletionParams

SpecParams == InitParams /\ [][NextParams]_vars

(***************************************************************************)
(* The JSON-RPC exchange on its own: any request posted to the             *)
(* repository's tool service, and any JSON body handed to invoke_tool by   *)
(* another service.                                                        *)
(***************************************************************************)
RequestIds == {"", "r1", "r2"}      \* "": a request without an id
RequestMethods == SpecialMethods \cup RepoMethods \cup {ToolsCall, ReplaceDots(MathAdd)}
RequestParams ==
    {JsonObject({}, 0, 0), JsonObject({"a"}, 3, 0), JsonObject({"a", "b"}, 3, 4),
     JsonObject({"a", "b"}, 3, 0)}
RpcRequests == [id : RequestIds, method : RequestMethods, params : RequestParams]

\* Every way a body can fill result and error.
AnyBodies(id) ==
    {[has_id |-> TRUE, id |-> id, result |-> r, error |-> e] :
        r \in {NoValue, DictValue("{'result': 7}"), ScalarValue("7")},
        e \in {NoRpcError, RpcError(INTERNAL_ERROR, "Internal error")}}

\* One exchange: the request, whether its body was JSON, the answer, and what
\* invoke_tool makes of the answer.
Exchange(payload, parsed, answer) ==
    [payload |-> payload, parsed |-> parsed, answer |-> answer,
     failed |-> InvokeTool(answer).raised, outcome |-> InvokeTool(answer)]

\* A POST to the repository's service, answered by on_post.
McpPost ==
    /\ pc = "call"
    /\ service = "repo"
    /\ \E raw \in RpcRequests, parsed \in BOOLEAN :
          invoked' = <<Exchange(raw, parsed, Answer(McpOnPostBody(parsed, raw)))>>
    /\ pc' = "answered"
    /\ UNCHANGED <<settings, ex, history, service, http, conversation, messages, tools,
                   tool_name_mapping, assistant_content, assistant_thinking, tool_calls,
                   current_tool, current_json, final_response_content, tool_results,
                   tool_index, sse, completions, appendCalls, fed, decoded, call, requests>>

\* invoke_tool against another service, which answers with any body.
InvokeToolElsewhere ==
    /\ pc = "call"
    /\ service = "external"
    /\ \E raw \in RpcRequests :
          \E data \in AnyBodies(raw.id) :
              invoked' = <<Exchange(raw, TRUE, Answer(data))>>
    /\ pc' = "answered"
    /\ UNCHANGED <<settings, ex, history, service, http, conversation, messages, tools,
                   tool_name_mapping, assistant_content, assistant_thinking, tool_calls,
                   current_tool, current_json, final_response_content, tool_results,
                   tool_index, sse, completions, appendCalls, fed, decoded, call, requests>>

InitRpc ==
    /\ settings = DefaultSettings
    /\ ex = NewExecutor("stream")
    /\ history = NoHistory
    /\ service \in {"repo", "external"}
    /\ decoded = NotRecording
    /\ call = NoCall
    /\ requests = NoRequests
    /\ Idle("call")

NextRpc ==
    \/ McpPost
    \/ InvokeToolElsewhere

SpecRpc == InitRpc /\ [][NextRpc]_vars

(***************************************************************************)
(* The tool names on their own: list_tools returns any list of one or two  *)
(* distinct names, the mapping is built, the model calls one of the listed *)
(* tools by its transit name and the Bridge is handed the mapped name.     *)
(***************************************************************************)
MaxNameLen == 3           \* tokens of a tool name

NameTokens == {"a", ".", "_"}
ToolNames == UNION {[1..n -> NameTokens] : n \in 1..MaxNameLen}
ToolLists ==
    {<<n>> : n \in ToolNames}
        \cup {pair \in ToolNames \X ToolNames : pair[1] # pair[2]}

\* The setup with the list raw_tools, then a tool-use block naming the k-th
\* offered tool, then the tools/call request of the tool phase.  The exchange
\* is recorded with the list and the position of the tool that was meant.
CallListedTool ==
    /\ pc = "call"
    /\ \E raw_tools \in ToolLists :
          /\ tools' = [i \in DOMAIN raw_tools |-> ReplaceDots(raw_tools[i])]
          /\ tool_name_mapping' = BuildMapping(raw_tools)
          /\ \E k \in DOMAIN raw_tools :
                LET tool_call == ToolCall(ToolId(1), tools'[k], EmptyObject)
                    payload == ToolsCallPayload(OriginalName(tool_name_mapping', tool_call.name),
                                                tool_call.input)
                IN  /\ tool_calls' = <<tool_call, requests>>
                    /\ invoked' = <<[payload |-> payload, listed |-> raw_tools, meant |-> k]>>
    /\ pc' = "tools"
    /\ UNCHANGED <<settings, ex, history, service, http, conversation, messages,
                   assistant_content, assistant_thinking, current_tool, current_json,
                   final_response_content, tool_results, tool_index, sse, completions,
                   appendCalls, fed, decoded, call, requests>>

InitNames ==
    /\ settings = DefaultSettings
    /\ ex = NewExecutor("stream")
    /\ history = NoHistory
    /\ service = "external"
    /\ decoded = NotRecording
    /\ call = NoCall
    /\ requests = NoRequests
    /\ Idle("call")

NextNames == CallListedTool

SpecNames == InitNames /\ [][NextNames]_vars

(***************************************************************************)
(* Two requests posting a user message to the same conversation, their     *)
(* handlers interleaved at each await of on_post and of                    *)
(* _save_assistant_message.  What event_stream does between the first      *)
(* completion call and the save is one step: a text, nothing, or a failure.*)
(***************************************************************************)
Requests == {"r1", "r2"}

UserContent(r) == IF r = "r1" THEN "add 3 and 4" ELSE "and 5"
AnswerTo(r) == IF r = "r1" THEN "7" ELSE "12"

Handler(r) ==
    [pc |-> "post", content |-> UserContent(r), messages |-> <<>>, first |-> <<>>, answer |-> ""]

\* What the conversation holds before the two requests.
EarlierMessages ==
    {<<>>, <<StoredMessage("user", "hello", "", <<>>, <<>>),
             StoredMessage("assistant", "hi", "", <<>>, <<>>)>>}

PairFrame ==
    <<settings, ex, history, pc, service, http, messages, tools, tool_name_mapping,
      assistant_content, assistant_thinking, tool_calls, current_tool, current_json,
      final_response_content, tool_results, tool_index, sse, completions, invoked, appendCalls,
      fed, decoded, call>>

\* await collection.update_one(..., {"$push": {"messages": user_message.model_dump()}})
PushUserMessage(r) ==
    /\ requests[r].pc = "post"
    /\ conversation' = Append(conversation, StoredMessage("user", requests[r].content, "", <<>>, <<>>))
    /\ requests' = [requests EXCEPT ![r].pc = "pushed"]
    /\ UNCHANGED PairFrame

\* updated_conversation = await collection.find_one(...), and the messages
\* list built from it.
ReadConversation(r) ==
    /\ requests[r].pc = "pushed"
    /\ requests' = [requests EXCEPT ![r].messages = Transcript(conversation), ![r].pc = "start"]
    /\ UNCHANGED conversation
    /\ UNCHANGED PairFrame

\* event_stream's first stream_chat_completion(messages=messages, ...)
FirstCompletion(r) ==
    /\ requests[r].pc = "start"
    /\ requests' = [requests EXCEPT ![r].first = requests[r].messages, ![r].pc = "streaming"]
    /\ UNCHANGED conversation
    /\ UNCHANGED PairFrame

\* The stream of the request ends: with an error chunk, or with [DONE] and
\* the content it accumulated.
StreamEnds(r) ==
    /\ requests[r].pc = "streaming"
    /\ \/ requests' = [requests EXCEPT ![r].pc = "failed"]
       \/ \E answer \in {"", AnswerTo(r)} :
             requests' = [requests EXCEPT ![r].answer = answer, ![r].pc = "save"]
    /\ UNCHANGED conversation
    /\ UNCHANGED PairFrame

\* _save_assistant_message: nothing to save, or the $push, which can fail.
SaveMessage(r) ==
    /\ requests[r].pc = "save"
    /\ IF requests[r].answer = ""
       THEN UNCHANGED conversation
       ELSE \E written \in BOOLEAN :
               conversation' =
                   IF written
                   THEN Append(conversation,
                               StoredMessage("assistant", requests[r].answer, "", <<>>, <<>>))
                   ELSE conversation
    /\ requests' = [requests EXCEPT ![r].pc = "closed"]
    /\ UNCHANGED PairFrame

InitPair ==
    /\ settings = DefaultSettings
    /\ ex = NewExecutor("stream")
    /\ history = NoHistory
    /\ service = "repo"
    /\ decoded = NotRecording
    /\ call = NoCall
    /\ requests = [r \in Requests |-> Handler(r)]
    /\ pc = "pair"
    /\ http = 0
    /\ conversation \in EarlierMessages
    /\ messages = <<>>
    /\ tools = <<>>
    /\ tool_name_mapping = <<>>
    /\ assistant_content = ""
    /\ assistant_thinking = ""
    /\ tool_calls = <<>>
    /\ current_tool = NoTool
    /\ current_json = ""
    /\ final_response_content = ""
    /\ tool_results = <<>>
    /\ tool_index = 1
    /\ sse = <<>>
    /\ completions = <<>>
    /\ invoked = <<>>
    /\ appendCalls = 0
    /\ fed = NothingFed

NextPair ==
    \/ \E r \in Requests : PushUserMessage(r)
    \/ \E r \in Requests : ReadConversation(r)
    \/ \E r \in Requests : FirstCompletion(r)
    \/ \E r \in Requests : StreamEnds(r)
    \/ \E r \in Requests : SaveMessage(r)

SpecPair == InitPair /\ [][NextPair]_vars

(***************************************************************************)
(* The executors on their own, over every retry configuration.             *)
(***************************************************************************)
RetrySettings ==
    [MAX_RETRIES : 0..MaxRetriesBound,
     INITIAL_RETRY_DELAY : 0..MaxInitialDelay,
     MAX_RETRY_DELAY : 1..MaxDelayCap,
     BACKOFF_MULTIPLIER : 1..MaxMultiplier]

InitRetry ==
    /\ settings \in RetrySettings
    /\ \E kind \in {"call", "stream"} : ex = NewExecutor(kind)
    /\ history = NoHistory
    /\ service = "repo"
    /\ decoded = NotRecording
    /\ call = NoCall
    /\ requests = NoRequests
    /\ Idle("executor")

NextRetry ==
    \/ RetryAttemptOk
    \/ RetryAttemptFails
    \/ RetryWake
    \/ StreamOpen
    \/ StreamOpenFails
    \/ StreamYield
    \/ StreamBreaks
    \/ StreamCompletes
    \/ StreamWake

SpecRetry == InitRetry /\ [][NextRetry]_vars

FairSpecRetry == SpecRetry /\ WF_vars(NextRetry)

(***************************************************************************)
(* Properties of the retry executors.                                      *)
(***************************************************************************)
AllOverload(fs) == \A i \in 1..Len(fs) : IsOverload(fs[i])

Terminated == ex.status \in {"returned", "raised"}

\* Each delay is the previous one times the multiplier, capped.
DelaysMultiply(sleeps) ==
    \A i \in 1..(Len(sleeps) - 1) :
        sleeps[i + 1] = Min(sleeps[i] * settings.BACKOFF_MULTIPLIER, settings.MAX_RETRY_DELAY)

\* The delays grow strictly until they sit at MAX_RETRY_DELAY.
DelaysIncreaseToCap(sleeps) ==
    \A i \in 1..(Len(sleeps) - 1) :
        \/ sleeps[i] < sleeps[i + 1]
        \/ sleeps[i + 1] = settings.MAX_RETRY_DELAY

\* The counts of a run that failed k times with overload errors and then succeeded.
SucceededAfterRetries ==
    /\ history.error = NoError
    /\ AllOverload(history.failures)
    /\ history.invocations = Len(history.failures) + 1
    /\ Len(history.sleeps) = Len(history.failures)

\* C4 (as claimed): in _stream_with_retry a stream that has yielded an event
\* is never retried, so no event of the generation reaches the caller twice.
C4_NoMidStreamRetry ==
    ex.kind = "stream" =>
        /\ ex.status = "sleeping" => history.yielded = 0
        /\ \A i, j \in 1..Len(history.delivered) : i # j => history.delivered[i] # history.delivered[j]

C6_NonRetryablePropagates ==
    (/\ ex.status = "raised"
     /\ Len(history.failures) = 1
     /\ ~IsOverload(history.failures[1]))
        => /\ history.invocations = 1
           /\ history.sleeps = <<>>
           /\ history.error = history.failures[1]

\* The counts of a run in which every attempt failed with an overload error.
ExhaustedCounts ==
    (ex.status = "raised" /\ AllOverload(history.failures))
        => /\ history.invocations = ex.max_retries + 1
           /\ Len(history.sleeps) = ex.max_retries
           /\ Len(history.failures) = ex.max_retries + 1
           /\ history.error = history.failures[Len(history.failures)]

\* C7: if every attempt fails with an overloaded or rate-limited error the
\* operation is invoked max_retries+1 times with max_retries sleeps, none
\* after the last failure, and the error propagates; the loop never runs a
\* further attempt and always terminates.
C7_RetriesExhausted ==
    /\ [](ExhaustedCounts /\ history.invocations <= ex.max_retries + 1)
    /\ <>Terminated

\* Every attempt of a three-retry executor failed with an overload error.
C7_Witness ==
    /\ ex.status = "raised"
    /\ AllOverload(history.failures)
    /\ ex.max_retries = 3
    /\ history.invocations = 4
    /\ Len(history.sleeps) = 3

RECURSIVE Power(_, _)
Power(base, n) == IF n = 0 THEN 1 ELSE base * Power(base, n - 1)

\* C25: every backoff sleep lasts min(current delay, max_delay), the delay
\* starting at initial_delay and being multiplied by the multiplier after
\* each sleep: no sleep exceeds max_delay, whatever the configuration.
C25_SleepsCapped ==
    \A i \in DOMAIN history.sleeps :
        /\ history.sleeps[i] <= settings.MAX_RETRY_DELAY
        /\ history.sleeps[i] =
              Min(settings.INITIAL_RETRY_DELAY * Power(settings.BACKOFF_MULTIPLIER, i - 1),
                  settings.MAX_RETRY_DELAY)

(***************************************************************************)
(* Properties of one request.                                              *)
(***************************************************************************)
Count(chunks, kind) == Cardinality({i \in DOMAIN chunks : chunks[i].kind = kind})

StoredAssistantMessages == {i \in DOMAIN conversation : conversation[i].role = "assistant"}

HasAnythingToSave == assistant_content # "" \/ assistant_thinking # "" \/ tool_calls # <<>>

\* The tool phase of the request is over.
ToolPhaseDone ==
    \/ pc \in {"pass2", "finalize", "save", "closed"}
    \/ pc = "failed" /\ Len(completions) = 2

SomeCallFailed == \E i \in DOMAIN invoked : invoked[i].failed

\* C1: once the stream is finalized the stop chunk and then [DONE] are the
\* last things sent before the persistence step; the append of the assistant
\* message is performed once if there is content, thinking or a tool call to
\* save, not at all if there is nothing, and never twice.
C1_PersistOnceAfterDone ==
    /\ appendCalls <= 1
    /\ Cardinality(StoredAssistantMessages) <= appendCalls
    /\ pc \in {"save", "closed"} =>
          /\ Len(sse) >= 2
          /\ sse[Len(sse) - 1] = StopChunk
          /\ sse[Len(sse)] = DoneMarker
          /\ Count(sse, "stop") = 1
          /\ Count(sse, "done") = 1
    /\ pc # "closed" => appendCalls = 0
    /\ pc = "closed" => appendCalls = (IF HasAnythingToSave THEN 1 ELSE 0)

\* A finalized request whose assistant message was appended and stored.
C1_Witness ==
    /\ pc = "closed"
    /\ appendCalls = 1
    /\ Cardinality(StoredAssistantMessages) = 1
    /\ sse[Len(sse)] = DoneMarker

\* C2: after the tool phase there is one tool result per finalized tool
\* call, whatever the remote call did: as many results as calls, and each
\* call id in exactly one result.
C2_OneResultPerCall ==
    /\ pc = "tools" => Len(tool_results) = tool_index - 1
    /\ ToolPhaseDone =>
          /\ Len(tool_results) = Len(tool_calls)
          /\ \A c \in DOMAIN tool_calls :
                Cardinality({r \in DOMAIN tool_results :
                                tool_results[r].tool_call_id = tool_calls[c].id}) = 1

\* Two calls, one timing out and one answered with a malformed response.
C2_Witness ==
    /\ ToolPhaseDone
    /\ Len(tool_calls) = 2
    /\ invoked[1].answer.kind = "transport"
    /\ invoked[2].answer.kind = "body"
    /\ ~JSONRPCResponseValid(invoked[2].answer.data)

\* C3: a completion that fails fatally ends the request with exactly one
\* error event and no [DONE]; no assistant message is appended, and the user
\* message stays stored.
C3_FatalUpstreamFailure ==
    /\ Count(sse, "error") <= 1
    /\ ex.status = "raised" => pc = "failed"
    /\ pc = "failed" =>
          /\ Count(sse, "error") = 1
          /\ sse[Len(sse)].kind = "error"
          /\ Count(sse, "done") = 0
          /\ appendCalls = 0
          /\ Len(conversation) = 1
          /\ conversation[1].role = "user"

\* The second pass failed with an overload error after its retry was used up.
C3_Witness ==
    /\ pc = "failed"
    /\ Len(completions) = 2
    /\ ex.status = "raised"
    /\ ex.attempt = ex.max_retries
    /\ sse[Len(sse)] = ErrorChunk("APIStatusError")
    /\ tool_results # <<>>

\* C8: with several finalized tool calls of which one fails, every call is
\* invoked and has a result, the second completion is requested, and the
\* request, unless that completion fails, ends with the assistant message
\* appended.
C8_FailureIsolated ==
    (Len(tool_calls) >= 2 /\ SomeCallFailed) =>
        /\ pc = "tools" => Len(invoked) = tool_index - 1
        /\ ToolPhaseDone =>
              /\ Len(invoked) = Len(tool_calls)
              /\ \A i \in DOMAIN tool_calls :
                    /\ invoked[i].payload.params.arguments = tool_calls[i].input
                    /\ tool_results[i].tool_call_id = tool_calls[i].id
              /\ Len(completions) = 2
              /\ Len(completions[2].messages) = Len(messages) + 1 + Len(tool_calls)
              /\ pc = "failed" => ex.status = "raised"
              /\ pc = "closed" => appendCalls = 1

\* Two calls, the second failing remotely, and the message stored with both results.
C8_Witness ==
    /\ pc = "closed"
    /\ Len(tool_calls) = 2
    /\ ~invoked[1].failed
    /\ invoked[2].failed
    /\ Len(conversation) = 2
    /\ Len(conversation[2].tool_results) = 2

\* C9 (as claimed): the result of a failed invocation carries is_error = true,
\* the result of a successful one does not, in tool_results (what is
\* persisted) as in the tool_result chunks relayed.
C9_FailuresFlagged ==
    \A i \in DOMAIN tool_results :
        /\ invoked[i].failed =>
              /\ "is_error" \in DOMAIN tool_results[i]
              /\ tool_results[i].is_error
        /\ ~invoked[i].failed => "is_error" \notin DOMAIN tool_results[i]
        /\ ToolResultChunk(tool_results[i]) \in {sse[k] : k \in DOMAIN sse}

\* C10 (as claimed): the repository's tool service answers the request made
\* for math.add with {a:3, b:4} with a result, not an error, and the result
\* recorded for the call reflects 7.
C10_AddAnswersSeven ==
    \A i \in DOMAIN tool_results :
        (/\ service = "repo"
         /\ invoked[i].payload.params.name = MathAdd
         /\ invoked[i].payload.params.arguments = JsonObject({"a", "b"}, 3, 4)
         /\ invoked[i].answer.kind = "body")
            => /\ invoked[i].answer.data.error.isnone
               /\ tool_results[i].content \in {"7", "{'result': 7}"}

(***************************************************************************)
(* Properties of one request, stated over the events it received.          *)
(***************************************************************************)
\* The recorded events of one pass.
DecodedIn(pass) == SelectSeq(decoded.events, LAMBDA d : d.pass = pass)

\* C11 (as claimed): an orchestration whose tool phase ran makes exactly one
\* more completion request, which offers no tools and no tool_choice; from
\* then on, whatever the second stream carries, the tool phase is not entered
\* again, no tool is invoked, no tool call is collected and no completion is
\* requested.
C11_OneFollowUpWithoutTools ==
    /\ [](/\ Len(completions) <= 2
          /\ (ToolPhaseDone /\ tool_calls # <<>>) => Len(completions) = 2
          /\ Len(completions) = 2 =>
                /\ completions[2].tools = <<>>
                /\ completions[2].tool_choice = "absent"
                /\ pc # "tools"
                /\ Len(invoked) = Len(tool_calls))
    /\ [][Len(completions) = 2 =>
            /\ completions' = completions
            /\ invoked' = invoked
            /\ tool_calls' = tool_calls]_vars

RECURSIVE Concat(_)
Concat(texts) == IF texts = <<>> THEN "" ELSE Head(texts) \o Concat(Tail(texts))

\* The texts of the text deltas a pass received, in arrival order.
ArrivedTexts(pass) ==
    LET deltas == SelectSeq(DecodedIn(pass), LAMBDA d : d.ev.delta = "text")
    IN  [i \in DOMAIN deltas |-> deltas[i].ev.text]

\* The texts of the content chunks sent to the client, in order.
RelayedTexts ==
    LET chunks == SelectSeq(sse, LAMBDA c : c.kind = "content")
    IN  [i \in DOMAIN chunks |-> chunks[i].text]

NoToolUseBlocks == \A i \in DOMAIN decoded.events : decoded.events[i].ev.block # "tool_use"

\* C12: while the provider has sent no tool-use block, the content chunks
\* sent to the client are the text deltas received, one chunk per delta, in
\* arrival order and with the same text; the accumulated content, and the
\* content of the assistant message stored for the request, is the
\* concatenation of these deltas in arrival order.
C12_TextRelayedAndStored ==
    (decoded.recording /\ NoToolUseBlocks /\ pc \notin {"post", "setup", "start", "responded"}) =>
        /\ RelayedTexts = ArrivedTexts(1)
        /\ assistant_content = Concat(ArrivedTexts(1))
        /\ \A i \in StoredAssistantMessages : conversation[i].content = Concat(ArrivedTexts(1))
        /\ (pc = "closed" /\ ArrivedTexts(1) # <<>>) => appendCalls = 1

\* Two text deltas and no tool-use block: both relayed, and "ab" stored.
C12_Witness ==
    /\ pc = "closed"
    /\ NoToolUseBlocks
    /\ ArrivedTexts(1) = <<"a", "b">>
    /\ RelayedTexts = <<"a", "b">>
    /\ Cardinality(StoredAssistantMessages) = 1
    /\ conversation[2].content = "ab"

\* What a relayed chunk, and the event it was made from, have in common: the
\* sort of payload and the payload.
ChunkMark(c) ==
    CASE c.kind = "tool_start" -> <<"tool_use", c.id>>
      [] c.kind = "tool_args" -> <<"partial_json", c.arguments>>
      [] c.kind = "thinking" -> <<"thinking", c.text>>
      [] OTHER -> <<"text", c.text>>

EventMark(d) == IF d.ev.block = "tool_use" THEN <<"tool_use", d.ev.id>> ELSE <<d.ev.delta, d.ev.text>>

ChunkMarks(chunks) == [i \in DOMAIN chunks |-> ChunkMark(chunks[i])]
EventMarks(events) == [i \in DOMAIN events |-> EventMark(events[i])]

RECURSIVE IsSubsequence(_, _)
IsSubsequence(a, b) ==
    IF a = <<>> THEN TRUE
    ELSE IF b = <<>> THEN FALSE
    ELSE IF Head(a) = Head(b) THEN IsSubsequence(Tail(a), Tail(b))
    ELSE IsSubsequence(a, Tail(b))

\* The chunks between the heartbeat and the end of the stream (the stop
\* chunk and [DONE], or an error chunk), split at the tool_result chunks.
TerminalLen ==
    IF sse # <<>> /\ sse[Len(sse)].kind = "done" THEN 2
    ELSE IF sse # <<>> /\ sse[Len(sse)].kind = "error" THEN 1
    ELSE 0
Body == SubSeq(sse, 2, Len(sse) - TerminalLen)
ResultsIn(body) == {i \in DOMAIN body : body[i].kind = "tool_result"}
BeforeResults(body) ==
    LET results == ResultsIn(body)
    IN  IF results = {} THEN body
        ELSE SubSeq(body, 1, (CHOOSE i \in results : \A j \in results : i <= j) - 1)
AfterResults(body) ==
    LET results == ResultsIn(body)
    IN  IF results = {} THEN <<>>
        ELSE SubSeq(body, (CHOOSE i \in results : \A j \in results : i >= j) + 1, Len(body))
ResultPositions == ResultsIn(Body)
FirstPassChunks == BeforeResults(Body)
SecondPassChunks == AfterResults(Body)

\* The events of the first pass that are relayed whatever came before them,
\* and the events of the second pass that are relayed.
AlwaysRelayed(d) ==
    \/ d.ev.block = "tool_use"
    \/ d.ev.delta = "text"
    \/ d.ev.delta = "thinking" /\ d.ev.type = "content_block_delta"
FinalRelayed(d) == d.ev.type = "content_block_delta" /\ d.ev.delta = "text"

ChunksInOrder ==
    (decoded.recording /\ sse # <<>>) =>
        LET body == Body
            first == BeforeResults(body)
            second == AfterResults(body)
            received == DecodedIn(1)
        IN  /\ sse[1] = Heartbeat
            /\ \A i \in 1..(Len(sse) - TerminalLen) : sse[i].kind \notin {"stop", "done", "error"}
            /\ TerminalLen = 2 => sse[Len(sse) - 1].kind = "stop"
            /\ Len(first) + Cardinality(ResultsIn(body)) + Len(second) = Len(body)
            /\ \A i \in DOMAIN first :
                  first[i].kind \in {"tool_start", "tool_args", "content", "thinking"}
            /\ \A i \in DOMAIN second : second[i].kind = "content"
            /\ IsSubsequence(ChunkMarks(first), EventMarks(received))
            /\ ChunkMarks(SelectSeq(first, LAMBDA c : c.kind # "tool_args"))
                  = EventMarks(SelectSeq(received, AlwaysRelayed))
            /\ ChunkMarks(second) = EventMarks(SelectSeq(DecodedIn(2), FinalRelayed))

\* C13: the chunks of a request are sent in the order their events were
\* received, one chunk at a time and never ahead of a chunk already sent; the
\* chunks of the first pass precede the tool_result chunks, these precede
\* the chunks of the second pass, and these the stop chunk and [DONE].
C13_ChunksInDecodeOrder ==
    /\ []ChunksInOrder
    /\ [][/\ Len(sse') >= Len(sse)
          /\ SubSeq(sse', 1, Len(sse)) = sse
          /\ Len(sse') <= Len(sse) + (IF pc = "finalize" THEN 2 ELSE 1)]_vars

\* Text and a tool-use block in the first pass, one tool result, text in the
\* second pass, and the end of the stream.
C13_Witness ==
    /\ pc = "closed"
    /\ decoded.recording
    /\ Len(FirstPassChunks) >= 3
    /\ \E i \in DOMAIN FirstPassChunks : FirstPassChunks[i].kind = "content"
    /\ \E i \in DOMAIN FirstPassChunks : FirstPassChunks[i].kind = "tool_args"
    /\ Cardinality(ResultPositions) = 1
    /\ Len(SecondPassChunks) = 1
    /\ sse[Len(sse)] = DoneMarker

\* The argument fragments the first pass received since the last tool-use
\* block started, concatenated.
BlockFragments ==
    LET events == DecodedIn(1)
        starts == {i \in DOMAIN events : events[i].ev.block = "tool_use"}
        start == IF starts = {} THEN 0 ELSE CHOOSE i \in starts : \A j \in starts : i >= j
        fragments == SelectSeq(SubSeq(events, start + 1, Len(events)),
                               LAMBDA d : d.ev.delta = "partial_json")
    IN  Concat([i \in DOMAIN fragments |-> fragments[i].ev.text])

\* A step of the first pass in which a content_block_stop ends the open
\* tool-use block.
BlockStops ==
    /\ decoded.recording
    /\ pc = "pass1"
    /\ pc' = "pass1"
    /\ current_tool.open
    /\ ~current_tool'.open

\* C14 (as claimed): when a tool-use block whose argument fragments
\* concatenate to valid JSON is stopped, one tool call with the block's id
\* and name and the parsed JSON as input is appended, and the accumulator is
\* left without an open call and with an empty buffer.
C14_ValidBlockRecorded ==
    [][(BlockStops /\ JsonValid(BlockFragments)) =>
          /\ tool_calls' = Append(tool_calls,
                ToolCall(current_tool.id, current_tool.name, JsonLoads(BlockFragments)))
          /\ current_tool' = NoTool
          /\ current_json' = ""]_vars

\* C15: when a tool-use block whose buffer is not valid JSON is stopped, no
\* tool call is appended, nothing is sent to the client and the stream goes
\* on; the accumulator is left without an open call and with an empty
\* buffer, as it was before any block, so that the blocks that follow are
\* handled as they would have been without it.
C15_InvalidBlockDropped ==
    [][(BlockStops /\ ~JsonValid(current_json)) =>
          /\ tool_calls' = tool_calls
          /\ current_tool' = NoTool
          /\ current_json' = ""
          /\ sse' = sse
          /\ assistant_content' = assistant_content
          /\ assistant_thinking' = assistant_thinking]_vars

\* A block stopped with the buffer {"a":3, and then a block with the input
\* {}: the request ends with the second call only, invoked and answered.
C15_Witness ==
    /\ pc = "closed"
    /\ decoded.recording
    /\ EventMarks(DecodedIn(1)) =
          <<<<"tool_use", "toolu_1">>, <<"partial_json", "{\"a\":3,">>,
            <<"tool_use", "toolu_2">>, <<"partial_json", "{}">>>>
    /\ Len(tool_calls) = 1
    /\ tool_calls[1].id = "toolu_2"
    /\ tool_calls[1].input = EmptyObject
    /\ Len(tool_results) = 1
    /\ Count(sse, "error") = 0

\* A step in which a pass receives an event of no documented shape: one that
\* event_stream has no branch for, or one without a type.
ReceivesMalformed ==
    /\ pc \in {"pass1", "pass2"}
    /\ \/ fed'.noise = fed.noise + 1
       \/ /\ Len(decoded'.events) = Len(decoded.events) + 1
          /\ decoded'.events[Len(decoded'.events)].ev.type = "absent"

\* C16 (as claimed): an event that has no type, an unknown type, or a known
\* type without its fields is skipped: nothing is sent to the client, no
\* accumulator changes, and the stream is neither aborted nor ended by an
\* error chunk.
C16_MalformedSkipped ==
    [][ReceivesMalformed =>
          /\ sse' = sse
          /\ pc' = pc
          /\ assistant_content' = assistant_content
          /\ assistant_thinking' = assistant_thinking
          /\ tool_calls' = tool_calls
          /\ current_tool' = current_tool
          /\ current_json' = current_json
          /\ final_response_content' = final_response_content]_vars

\* list_tools failed: the setup is over and no tool is offered.
LoadFailed == pc \notin {"post", "setup", "responded"} /\ tools = <<>>

\* C17: a failure of list_tools does not fail the request: no error status
\* is answered once the transcript is built; the first completion is
\* requested without tools and without tool_choice, no tool call is
\* collected and no tool invoked, no second completion is requested, and the
\* stream ends with the stop chunk and [DONE] unless the provider fails or
\* sends an event the loop cannot handle.
C17_ToolLoadFailureTolerated ==
    /\ messages # <<>> => http = 0
    /\ LoadFailed =>
          /\ tool_name_mapping = <<>>
          /\ Len(completions) <= 1
          /\ \A i \in DOMAIN completions :
                completions[i].tools = <<>> /\ completions[i].tool_choice = "absent"
          /\ pc \notin {"tools", "pass2"}
          /\ tool_calls = <<>>
          /\ invoked = <<>>
          /\ Count(sse, "tool_result") = 0
          /\ pc = "failed" => (fed.faults > 0 \/ fed.noise > 0)
          /\ pc \in {"save", "closed"} =>
                /\ sse[Len(sse) - 1] = StopChunk
                /\ sse[Len(sse)] = DoneMarker

\* list_tools failed, and the answer was streamed to its end and stored.
C17_Witness ==
    /\ LoadFailed
    /\ pc = "closed"
    /\ completions[1].tool_choice = "absent"
    /\ assistant_content = "ab"
    /\ sse[Len(sse)] = DoneMarker
    /\ Cardinality(StoredAssistantMessages) = 1

\* The append of the assistant message was attempted and stored nothing.
WriteFailed == pc = "closed" /\ appendCalls = 1 /\ StoredAssistantMessages = {}

\* C18: the persistence step, whether its write succeeds or fails, sends
\* nothing: after [DONE] the stream carries no further chunk, in particular
\* no error chunk, and the generator ends.
C18_WriteFailureContained ==
    /\ [](pc = "closed" =>
            /\ sse[Len(sse)] = DoneMarker
            /\ Count(sse, "done") = 1
            /\ Count(sse, "error") = 0)
    /\ [][pc = "save" => (sse' = sse /\ pc' = "closed")]_vars
    /\ [][(sse # <<>> /\ sse[Len(sse)] = DoneMarker) => sse' = sse]_vars

\* The write of an assistant message failed after [DONE] was sent.
C18_Witness ==
    /\ WriteFailed
    /\ assistant_content # ""
    /\ sse[Len(sse)] = DoneMarker
    /\ Len(conversation) = 1

\* C20 (as claimed): every completion request that has thinking enabled is
\* sent with temperature 1.0, whatever temperature the caller passed.
C20_ThinkingAtTemperatureOne ==
    \A i \in DOMAIN completions :
        completions[i].thinking > 0 => completions[i].temperature = 10

\* A step of the first pass in which the start of a tool-use block is received.
BlockStarts ==
    /\ pc = "pass1"
    /\ fed'.blocks = fed.blocks + 1

\* C24: the start of a tool-use block always leaves the accumulator open on
\* the new block's id and name with an empty argument buffer, also when a
\* call was already open: fragments of the earlier block are not part of the
\* buffer parsed for the new one.
C24_StartResetsAccumulator ==
    [][BlockStarts =>
          /\ current_tool'.open
          /\ current_tool'.id = ToolId(fed'.blocks)
          /\ current_tool'.name = tools[1]
          /\ current_json' = ""]_vars

\* C27: a POST that has appended the user message is answered with a stream
\* that ends with [DONE] or with one error event; no path after the append
\* ends in an HTTP error response without a stream.
C27_AppendedPostIsStreamed ==
    conversation # <<>> =>
        /\ http = 0
        /\ pc # "responded"
        /\ pc \in {"save", "closed", "failed"} =>
              \/ sse[Len(sse)] = DoneMarker
              \/ sse[Len(sse)].kind = "error" /\ Count(sse, "error") = 1

\* The positions of the tool_start chunks, and of the tool_result chunks that
\* follow position i and carry the id announced there.
StartPositions == {i \in DOMAIN sse : sse[i].kind = "tool_start"}
ResultsAfter(i) ==
    {j \in DOMAIN sse : /\ j > i
                        /\ sse[j].kind = "tool_result"
                        /\ sse[j].tool_result.tool_call_id = sse[i].id}

\* No tool_result chunk carries an id that no earlier tool_start announced.
ResultsAnnounced ==
    \A j \in DOMAIN sse :
        sse[j].kind = "tool_result" =>
            \E i \in StartPositions : i < j /\ sse[i].id = sse[j].tool_result.tool_call_id

EndedWithDone == pc \in {"save", "closed"}

\* C28 (as claimed): once the stream has ended without an error event, every
\* id announced by a tool_start chunk has exactly one tool_result chunk after
\* it; and no tool_result chunk carries an id that was not announced.
C28_Original ==
    /\ ResultsAnnounced
    /\ EndedWithDone => \A i \in StartPositions : Cardinality(ResultsAfter(i)) = 1

\* C28 (amended): as claimed for the announced blocks that were finalized
\* into a tool call; an announced block that was dropped has no tool_result
\* chunk.
C28_FinalizedCallsAnswered ==
    /\ ResultsAnnounced
    /\ \A i \in StartPositions : Cardinality(ResultsAfter(i)) <= 1
    /\ EndedWithDone =>
          \A i \in StartPositions :
              IF \E c \in DOMAIN tool_calls : tool_calls[c].id = sse[i].id
              THEN Cardinality(ResultsAfter(i)) = 1
              ELSE ResultsAfter(i) = {}

\* The stream ended with [DONE] after two announced blocks, the first one
\* finalized and answered, the second one dropped.
C28_Witness ==
    /\ pc = "closed"
    /\ sse[Len(sse)] = DoneMarker
    /\ Cardinality(StartPositions) = 2
    /\ Len(tool_calls) = 1
    /\ \E i \in StartPositions : sse[i].id = tool_calls[1].id /\ Cardinality(ResultsAfter(i)) = 1
    /\ \E i \in StartPositions : sse[i].id # tool_calls[1].id /\ ResultsAfter(i) = {}

\* The POST was answered with a rejection: 404 or 400.
Rejected == pc = "responded" /\ http \in {400, 404}

SecondTranscript == completions[2].messages

\* C23: the transcript sent in the second pass is the original transcript,
\* then one assistant message with the text of the first pass and the
\* finalized calls in order, then one tool message per finalized call, in
\* call order, the i-th carrying the id of the i-th call.
C23_SecondPassTranscript ==
    (Len(completions) = 2 /\ pc = "pass2") =>
        LET n == Len(messages)
            assistant == SecondTranscript[n + 1]
        IN  /\ completions[1].messages = messages
            /\ Len(SecondTranscript) = n + 1 + Len(tool_calls)
            /\ SubSeq(SecondTranscript, 1, n) = messages
            /\ assistant.role = "assistant"
            /\ assistant.content = assistant_content
            /\ Len(assistant.tool_calls) = Len(tool_calls)
            /\ \A i \in DOMAIN tool_calls :
                  /\ assistant.tool_calls[i].id = tool_calls[i].id
                  /\ assistant.tool_calls[i].name = tool_calls[i].name
                  /\ SecondTranscript[n + 1 + i].role = "tool"
                  /\ SecondTranscript[n + 1 + i].tool_call_id = tool_calls[i].id
                  /\ SecondTranscript[n + 1 + i].tool_call_id = assistant.tool_calls[i].id
                  /\ SecondTranscript[n + 1 + i].content = tool_results[i].content

\* Two calls were finalized and answered differently, and the second pass runs.
C23_Witness ==
    /\ Len(completions) = 2
    /\ pc = "pass2"
    /\ Len(tool_calls) = 2
    /\ tool_calls[1].id # tool_calls[2].id
    /\ tool_results[1].content # tool_results[2].content

(***************************************************************************)
(* Properties of the tool names.                                           *)
(***************************************************************************)

\* C26: whatever list_tools returned, a listed tool called by its transit
\* name is requested from the tool service under its original name, and two
\* distinct listed tools are never requested under the same name.
C26_NamesReversible ==
    \A i \in DOMAIN invoked :
        LET x == invoked[i]
        IN  /\ x.payload.params.name = x.listed[x.meant]
            /\ \A j, k \in DOMAIN x.listed :
                  x.listed[j] # x.listed[k] =>
                      OriginalName(tool_name_mapping, tools[j]) # OriginalName(tool_name_mapping, tools[k])

(***************************************************************************)
(* Properties of two requests on one conversation.                         *)
(***************************************************************************)
Stored(role, content) ==
    {i \in DOMAIN conversation : conversation[i].role = role /\ conversation[i].content = content}

\* C29: however the two requests interleave, the transcript each sends in
\* its first completion ends with its own user message; both user messages
\* are stored once they were pushed, and at most one assistant message per
\* request (one when its append succeeded): no append is lost.
C29_OwnMessageLast ==
    \A r \in DOMAIN requests :
        /\ requests[r].first # <<>> =>
              requests[r].first[Len(requests[r].first)] = Msg("user", requests[r].content)
        /\ requests[r].pc # "post" => Cardinality(Stored("user", requests[r].content)) = 1
        /\ Cardinality(Stored("assistant", AnswerTo(r))) <= 1
        /\ Stored("assistant", AnswerTo(r)) # {} => requests[r].pc = "closed"

\* The part of C29 about the stored conversation.
NoAppendLost ==
    \A r \in DOMAIN requests :
        /\ requests[r].pc # "post" => Cardinality(Stored("user", requests[r].content)) = 1
        /\ Cardinality(Stored("assistant", AnswerTo(r))) <= 1

(***************************************************************************)
(* Properties of the request parameters.                                   *)
(***************************************************************************)

\* C21: whenever thinking is enabled, the budget_tokens sent to the provider is
\* strictly less than the max_tokens of the same request, for every requested
\* budget and every max_tokens.
C21_BudgetBelowMaxTokens ==
    \A i \in DOMAIN completions :
        completions[i].thinking > 0 => completions[i].thinking < completions[i].max_tokens

(***************************************************************************)
(* Properties of the JSON-RPC exchange.                                    *)
(***************************************************************************)
ExactlyOne(data) == (data.result.isnone /\ ~data.error.isnone) \/ (~data.result.isnone /\ data.error.isnone)

ConstructorRefused(x) ==
    x.outcome.raised /\ x.outcome.message = "Response must have exactly one of 'result' or 'error'."

\* C22: a JSONRPCResponse with both or with neither of result / error cannot
\* be constructed, one with exactly one of them can; and every response the
\* repository's on_post builds has exactly one of them and carries the id of
\* the request it answers.
C22_ResultXorError ==
    \A i \in DOMAIN invoked :
        LET x == invoked[i]
        IN  /\ ConstructorRefused(x) <=> ~ExactlyOne(x.answer.data)
            /\ service = "repo" =>
                  /\ ExactlyOne(x.answer.data)
                  /\ x.parsed => x.answer.data.id = x.payload.id

\* The repository's service has answered a math.add request with a result,
\* and invoke_tool has returned it.
C22_Witness ==
    /\ service = "repo"
    /\ invoked # <<>>
    /\ invoked[1].payload.method = MathAdd
    /\ invoked[1].payload.id = "r1"
    /\ ~invoked[1].answer.data.result.isnone
    /\ ~invoked[1].failed

====
